---- MODULE Spec2Model ----
(***************************************************************************)
(* Intent-Shell: the self-healing execution pipeline.                      *)
(*                                                                         *)
(*   intellishell/executor.py   CircuitBreaker, SelfHealingExecutor        *)
(*   intellishell/planner.py    ExecutionPlanner                           *)
(*   intellishell/safety.py     SafetyController, INTENT_SAFETY_LEVELS     *)
(*                                                                         *)
(* One invocation is a task walking through program points (pc).  The      *)
(* collaborators outside the pipeline (provider, AI backend, human) are    *)
(* inputs chosen with \E.                                                  *)
(***************************************************************************)
EXTENDS Integers, Sequences, FiniteSets, TLC

VARIABLES
    failure_counts,     \* CircuitBreaker._failure_counts : dict key -> int
    open_circuits,      \* CircuitBreaker._open_circuits  : set of keys
    consecutive,        \* history: record_failure(k) calls since the last record_success(k)
    last_call,          \* history: the last CircuitBreaker call, <<op, key>>
    last_action_failed, \* SafetyController.last_action_failed
    red_action_log,     \* SafetyController._red_action_log
    repair_log,         \* RepairLogger: the lines of repairs.jsonl
    ai_bridge,          \* SelfHealingExecutor.ai_bridge: "none" or "present"
    repair_calls,       \* history: how many of the calls allowed repairs
    calls,              \* history: how many calls the shell (or the test) has made
    pc,                 \* per task: the program point of its invocation
    args,               \* per task: intent_match and the call's parameters
    result,             \* per task: the ExecutionResult in hand / returned
    repair_attempt,     \* per task: the RepairAttempt in hand / returned
    confirmed,          \* per task: what request_confirmation returned
    obs,                \* history, per task: what this invocation has called so far
    fail_streak,        \* history, per key: consecutive invocations that returned success=False
    unrepaired_streak,  \* history, per key: consecutive invocations that recorded a breaker failure
    ai_response,        \* per task: llm_response, what ai_bridge.generate answered
    user_input,         \* per task: the human's answer to the fix prompt, stripped and lowered
    base,               \* history: breaker and safety state when the oldest running invocation began
    overlapped,         \* history: the task whose invocation another one has overlapped, or "none"
    message_text,       \* the text handed to _classify_error on its own
    classified,         \* what _classify_error returned for it
    _monitoring,        \* ClipboardHistory._monitoring
    _monitor_thread,    \* ClipboardHistory._monitor_thread: 0 (None) or a thread of workers
    workers,            \* the monitor threads ever started: where each is in _monitor_loop
    _active_watches,    \* WatchProvider._active_watches : dict watch_id -> observer
    observers,          \* the watchdog observers ever started: the state of each one's thread
    caller,             \* the foreground caller of the monitors: where it is in stop
    monitor_op,         \* history: the last monitor call and the state it found
    _providers,         \* ProviderRegistry._providers : dict name -> provider
    _trigger_index,     \* ProviderRegistry._trigger_index : dict string -> (provider, trigger)
    registrations,      \* history: the providers handed to register, in order
    match_call,         \* the matcher's call: its input, the similarities and its result
    adapter_call,       \* the adapter's call: the backend's dict, the input and its result
    _entries,           \* ClipboardHistory._entries, oldest first
    _last_content,      \* ClipboardHistory._last_content: "None" or a content
    max_entries,        \* ClipboardHistory.max_entries
    storage,            \* the lines of the file at ClipboardHistory.storage_path
    clip_op,            \* history: the last ClipboardHistory call, what it returned, the entries before it
    command_history,    \* SessionState.command_history
    session_op,         \* history: the last SessionState call, what it returned, the history before it
    extract_text,       \* the text handed to _extract_suggestion
    extracted,          \* what _extract_suggestion returned for it, "unset" before the call
    adder,              \* per thread inside add_entry: where it is and the content it adds
    accepted            \* history: the entries add_entry has appended, in order

breaker_vars == <<failure_counts, open_circuits, consecutive, last_call>>
safety_vars  == <<last_action_failed, red_action_log>>
task_vars    == <<pc, args, result, repair_attempt, confirmed, obs, ai_response, user_input>>
streak_vars  == <<fail_streak, unrepaired_streak>>
overlap_vars == <<base, overlapped>>
classify_vars == <<message_text, classified>>
monitor_vars == <<_monitoring, _monitor_thread, workers, _active_watches, observers,
                  caller, monitor_op>>
\* the variables of the components beside the pipeline
registry_vars == <<_providers, _trigger_index, registrations>>
matcher_vars == <<match_call, adapter_call>>
clipboard_vars == <<_entries, _last_content, max_entries, storage, clip_op>>
session_vars == <<command_history, session_op>>
extract_vars == <<extract_text, extracted>>
adder_vars == <<adder, accepted>>
component_vars == <<monitor_vars, registry_vars, matcher_vars, clipboard_vars,
                    session_vars, extract_vars, adder_vars>>
vars == <<failure_counts, open_circuits, consecutive, last_call, last_action_failed,
          red_action_log, repair_log, ai_bridge, calls, repair_calls, pc, args, result,
          repair_attempt, confirmed, obs, fail_streak, unrepaired_streak,
          ai_response, user_input, base, overlapped, message_text, classified,
          _monitoring, _monitor_thread, workers, _active_watches, observers, caller,
          monitor_op, _providers, _trigger_index, registrations, match_call, adapter_call,
          _entries, _last_content, max_entries, storage, clip_op,
          command_history, session_op, extract_text, extracted, adder, accepted>>

----------------------------------------------------------------------------
(* Bounds *)

\* commands in one session of the shell (Spec)
MaxCalls == 3
\* commands in one session that repeats a few commands (SpecRepeat)
MaxRepeats == 4
\* of these, calls that allow repairs (each may add a line to the repair journal)
MaxRepairCalls == 1
\* commands in one session in which two commands may overlap (SpecOverlap)
MaxOverlapCalls == 4
\* direct CircuitBreaker calls in one behaviour of SpecBreaker
MaxBreakerCalls == 5
\* fragments in a message handed to _classify_error on its own (SpecClassify)
MaxFragments == 2

----------------------------------------------------------------------------
(* The vocabulary of one run *)

\* datetime.now().isoformat(): the clock's reading, kept abstract
Now == "now"

Tasks == {"main", "background"}
MainTask == "main"

\* ProviderRegistry._providers holds the registered names
RegisteredProviders == {"system_monitor"}
ProviderNames == {"system_monitor", "ghost_provider"}

IntentNames == {"list_processes", "launch_notepad", "kill_process", "custom_intent"}

\* the commands the shell is given: every intent on the registered provider,
\* one on a provider that is not registered
Commands ==
    {<<p, i>> : p \in RegisteredProviders, i \in IntentNames}
        \cup {<<"ghost_provider", "kill_process">>}

RepeatedCommands == {<<"system_monitor", "kill_process">>}

command_key(p, i) == <<p, ":", i>>
Keys == {command_key(c[1], c[2]) : c \in Commands}

get_provider(name) == IF name \in RegisteredProviders THEN name ELSE "None"

----------------------------------------------------------------------------
(* safety.py *)

INTENT_SAFETY_LEVELS ==
    [list_processes |-> "GREEN", launch_notepad |-> "YELLOW", kill_process |-> "RED"]

get_safety_level(intent_name) ==
    IF intent_name \in DOMAIN INTENT_SAFETY_LEVELS
    THEN INTENT_SAFETY_LEVELS[intent_name]
    ELSE "YELLOW"

\* YELLOW confirms when the last action succeeded
requires_confirmation_inverted(intent_name, force) ==
    IF force THEN TRUE
    ELSE LET safety_level == get_safety_level(intent_name) IN
         IF safety_level = "GREEN" THEN FALSE
         ELSE IF safety_level = "YELLOW" THEN ~last_action_failed
         ELSE IF safety_level = "RED" THEN TRUE
         ELSE FALSE

requires_confirmation(intent_name, force) ==
    IF force THEN TRUE
    ELSE LET safety_level == get_safety_level(intent_name) IN
         IF safety_level = "GREEN" THEN FALSE
         ELSE IF safety_level = "YELLOW" THEN last_action_failed
         ELSE IF safety_level = "RED" THEN TRUE
         ELSE FALSE

\* what the human types at "Proceed? (y/n): "
Responses == {"y", " Y ", "n", "yes"}

\* response.strip().lower()
StripLower(r) ==
    CASE r = "y" -> "y"
      [] r = " Y " -> "y"
      [] r = "n" -> "n"
      [] r = "yes" -> "yes"

\* takes every answer that begins with y for a yes
IsYes_any_y(r) == StripLower(r) \in {"y", "yes"}

\* response == "y" (safety.py), user_input != 'y' (executor.py)
IsYes(r) == StripLower(r) = "y"

\* logs only the confirmed RED actions
RedLogAfter_confirmed_only(log, intent_name, provider_name, safety_level, ok) ==
    IF safety_level = "RED" /\ ok
    THEN Append(log, [timestamp |-> Now, intent |-> intent_name,
                      provider |-> provider_name, confirmed |-> ok])
    ELSE log

\* request_confirmation: the RED log after the human answered
RedLogAfter(log, intent_name, provider_name, safety_level, ok) ==
    IF safety_level = "RED"
    THEN Append(log, [timestamp |-> Now, intent |-> intent_name,
                      provider |-> provider_name, confirmed |-> ok])
    ELSE log

\* record_action_result(success)
record_action_result(success) == last_action_failed' = ~success

----------------------------------------------------------------------------
(* executor.py: CircuitBreaker *)

max_failures == 3

get_failure_count(k) == IF k \in DOMAIN failure_counts THEN failure_counts[k] ELSE 0

is_open(k) == k \in open_circuits

CountsAfterFailure(k) ==
    [x \in (DOMAIN failure_counts) \cup {k} |->
        IF x = k THEN get_failure_count(k) + 1 ELSE failure_counts[x]]

\* opens one failure late
record_failure_late(k) ==
    /\ failure_counts' = CountsAfterFailure(k)
    /\ open_circuits' = IF CountsAfterFailure(k)[k] > max_failures
                        THEN open_circuits \cup {k}
                        ELSE open_circuits
    /\ consecutive' = [consecutive EXCEPT ![k] = @ + 1]
    /\ last_call' = <<"record_failure", k>>

record_failure(k) ==
    /\ failure_counts' = CountsAfterFailure(k)
    /\ open_circuits' = IF CountsAfterFailure(k)[k] >= max_failures
                        THEN open_circuits \cup {k}
                        ELSE open_circuits
    /\ consecutive' = [consecutive EXCEPT ![k] = @ + 1]
    /\ last_call' = <<"record_failure", k>>

\* closes the key's circuit and keeps its count
record_success_keeps_count(k) ==
    /\ failure_counts' = failure_counts
    /\ open_circuits' = open_circuits \ {k}
    /\ consecutive' = [consecutive EXCEPT ![k] = 0]
    /\ last_call' = <<"record_success", k>>

\* closes every circuit, not only the key's
record_success_closes_all(k) ==
    /\ failure_counts' = [x \in (DOMAIN failure_counts) \ {k} |-> failure_counts[x]]
    /\ open_circuits' = {}
    /\ consecutive' = [consecutive EXCEPT ![k] = 0]
    /\ last_call' = <<"record_success", k>>

record_success(k) ==
    /\ failure_counts' = [x \in (DOMAIN failure_counts) \ {k} |-> failure_counts[x]]
    /\ open_circuits' = open_circuits \ {k}
    /\ consecutive' = [consecutive EXCEPT ![k] = 0]
    /\ last_call' = <<"record_success", k>>

----------------------------------------------------------------------------
(* Messages: a message is a sequence of text fragments; a substring test is  *)
(* a test for a fragment.                                                    *)

\* str.lower(), fragment by fragment
ToLower(tok) ==
    CASE tok = "NOT FOUND" -> "not found"
      [] tok = "Does Not Exist" -> "does not exist"
      [] tok = "Permission" -> "permission"
      [] tok = "Access Denied" -> "access denied"
      [] tok = "TIMEOUT" -> "timeout"
      [] tok = "Provider" -> "provider"
      [] tok = "File" -> "file"
      [] tok = "Action cancelled by user" -> "action cancelled by user"
      [] tok = "Circuit breaker open" -> "circuit breaker open"
      [] OTHER -> tok

Lower(m) == [n \in 1..Len(m) |-> ToLower(m[n])]

Contains(m, phrase) == \E n \in 1..Len(m) : m[n] = phrase

\* compares the message as written, without lowering it
_classify_error_as_written(error_message) ==
    IF Contains(error_message, "not found") \/ Contains(error_message, "does not exist")
    THEN "FileNotFoundError"
    ELSE IF Contains(error_message, "permission") \/ Contains(error_message, "access denied")
    THEN "PermissionError"
    ELSE IF Contains(error_message, "timeout")
    THEN "TimeoutError"
    ELSE "None"

\* executor.py 200-219
\* gives every message it does not recognise a category of its own
_classify_error_catch_all(error_message) ==
    LET error_message_lower == Lower(error_message) IN
    IF Contains(error_message_lower, "not found")
       \/ Contains(error_message_lower, "does not exist")
    THEN "FileNotFoundError"
    ELSE IF Contains(error_message_lower, "permission")
            \/ Contains(error_message_lower, "access denied")
    THEN "PermissionError"
    ELSE IF Contains(error_message_lower, "timeout")
    THEN "TimeoutError"
    ELSE "Error"

_classify_error(error_message) ==
    LET error_message_lower == Lower(error_message) IN
    IF Contains(error_message_lower, "not found")
       \/ Contains(error_message_lower, "does not exist")
    THEN "FileNotFoundError"
    ELSE IF Contains(error_message_lower, "permission")
            \/ Contains(error_message_lower, "access denied")
    THEN "PermissionError"
    ELSE IF Contains(error_message_lower, "timeout")
    THEN "TimeoutError"
    ELSE "None"

----------------------------------------------------------------------------
(* ExecutionResult and RepairAttempt *)

\* dict.update: the new pairs replace the pairs of the same key
MetaUpdate(md, new) == {e \in md : \A n \in new : n[1] # e[1]} \cup new

MetaGet(md, k) == IF \E e \in md : e[1] = k
                  THEN (CHOOSE e \in md : e[1] = k)[2]
                  ELSE "None"

NoResult == [success |-> FALSE, message |-> <<"<no result>">>, metadata |-> {}]

\* the failure without its tag
CircuitOpenResult_untagged(k) ==
    [success |-> FALSE,
     message |-> <<"Circuit breaker open", k[1], k[3]>>,
     metadata |-> {}]

CircuitOpenResult(k) ==
    [success |-> FALSE,
     message |-> <<"Circuit breaker open", k[1], k[3]>>,
     metadata |-> {<<"circuit_breaker", "open">>}]

\* words the failure so that no category fits it
NotFoundResult_unknown(provider_name) ==
    [success |-> FALSE,
     message |-> <<"Provider", provider_name, "unknown">>,
     metadata |-> {}]

NotFoundResult(provider_name) ==
    [success |-> FALSE,
     message |-> <<"Provider", provider_name, "not found">>,
     metadata |-> {}]

\* the cancellation without its tag
CancelledResult_untagged(safety_level) ==
    [success |-> FALSE,
     message |-> <<"Action cancelled by user">>,
     metadata |-> {<<"safety_level", safety_level>>}]

\* planner.py 74-81
CancelledResult(safety_level) ==
    [success |-> FALSE,
     message |-> <<"Action cancelled by user">>,
     metadata |-> {<<"cancelled", "True">>, <<"safety_level", safety_level>>}]

\* what provider.execute may do: return an ExecutionResult, or raise
ProviderOutcomes ==
    {[kind |-> "return", success |-> TRUE, message |-> <<"ok">>, metadata |-> {}],
     [kind |-> "return", success |-> FALSE, message |-> <<"error">>, metadata |-> {}],
     [kind |-> "return", success |-> FALSE, message |-> <<"File", "NOT FOUND">>,
      metadata |-> {}],
     [kind |-> "raise", success |-> FALSE, message |-> <<"boom">>, metadata |-> {}]}

\* a provider is free in what it returns: a failure without any message, and
\* one whose own metadata uses the pipeline's keys
OddOutcomes ==
    {[kind |-> "return", success |-> FALSE, message |-> <<>>, metadata |-> {}],
     [kind |-> "return", success |-> FALSE, message |-> <<"error">>,
      metadata |-> {<<"cancelled", "True">>, <<"circuit_breaker", "open">>}]}

\* planner.py 95-104: the provider's result with the provenance merged in
WithProvenance(out, a) ==
    [success |-> out.success,
     message |-> out.message,
     metadata |-> MetaUpdate(out.metadata,
                             {<<"provider", a.provider_name>>,
                              <<"intent", a.intent_name>>,
                              <<"confidence", a.confidence>>,
                              <<"safety_level", get_safety_level(a.intent_name)>>})]

NoRepair ==
    [original_intent |-> "None", original_input |-> "None", error_type |-> "None",
     error_message |-> <<>>, suggested_fix |-> "None", status |-> "None",
     timestamp |-> "None", retry_count |-> 0]

RepairAttempt(a, res, error_type, fix, status, retries) ==
    [original_intent |-> a.intent_name, original_input |-> a.original_input,
     error_type |-> error_type, error_message |-> res.message,
     suggested_fix |-> fix, status |-> status,
     timestamp |-> Now, retry_count |-> retries]

----------------------------------------------------------------------------
(* The AI backend's answer and _extract_suggestion *)

\* ollama.generate: raises, or returns a text (a sequence of fragments:
\* braces, object members, prose)
AIResponses ==
    {[kind |-> "raise", text |-> <<>>],
     [kind |-> "text", text |-> <<>>],
     [kind |-> "text", text |-> <<"sorry">>],
     [kind |-> "text", text |-> <<"{", "fix", "}">>],
     [kind |-> "text", text |-> <<"try", "{", "fix", "}", "ok">>],
     [kind |-> "text", text |-> <<"{", "}">>],
     [kind |-> "text", text |-> <<"{", "reasoning", "}">>],
     [kind |-> "text", text |-> <<"{", "oops", "}">>],
     [kind |-> "text", text |-> <<"{", "fix", "}", "{", "fix", "}">>],
     [kind |-> "text", text |-> <<"}", "{">>]}

\* str.find("{") + 1: the first position of the fragment, 0 when absent
Find(s, c) ==
    IF \E n \in 1..Len(s) : s[n] = c
    THEN CHOOSE n \in 1..Len(s) : s[n] = c /\ \A m \in 1..(n - 1) : s[m] # c
    ELSE 0

\* str.rfind("}") + 1: the last position of the fragment, 0 when absent
RFind(s, c) ==
    IF \E n \in 1..Len(s) : s[n] = c
    THEN CHOOSE n \in 1..Len(s) : s[n] = c /\ \A m \in (n + 1)..Len(s) : s[m] # c
    ELSE 0

\* json.loads on a slice that starts with "{": the members, or an error
JsonLoads(s) ==
    IF s = <<"{", "fix", "}">> THEN "fix"
    ELSE IF s = <<"{", "reasoning", "}">> THEN "reasoning"
    ELSE IF s = <<"{", "}">> THEN "empty"
    ELSE "error"

\* takes whatever lies between the first "{" and the last "}" for a suggestion
_extract_suggestion_unparsed(llm_response) ==
    LET start == Find(llm_response, "{")
        end == RFind(llm_response, "}")
    IN IF start >= 1 /\ end >= start THEN "fix" ELSE "None"

\* "fix": a dict with suggested_fix; "reasoning": a dict without it;
\* "empty": the dict {}; "None": nothing
_extract_suggestion(llm_response) ==
    LET start == Find(llm_response, "{")
        end == RFind(llm_response, "}")
    IN IF start >= 1 /\ end >= start
       THEN LET parsed == JsonLoads(SubSeq(llm_response, start, end))
            IN IF parsed = "error" THEN "None" ELSE parsed
       ELSE "None"

\* suggestion.get('suggested_fix')
suggested_fix_of(suggestion) == IF suggestion = "fix" THEN "fix" ELSE "None"

\* input() at the fix prompt finds the terminal closed (EOFError)
EndOfInput == "<EOF>"

----------------------------------------------------------------------------
(* Initial state: CircuitBreaker.__init__, SafetyController.__init__,        *)
(* SelfHealingExecutor.__init__; no invocation has started.                  *)

NoArgs ==
    [provider_name |-> "None", intent_name |-> "None",
     original_input |-> "None", confidence |-> "None",
     allow_repairs |-> FALSE, skip_safety_check |-> FALSE]

NoObs ==
    [planner |-> 0, safety_level |-> 0, confirm |-> 0, provider |-> 0,
     classify |-> 0, asked |-> 0, available |-> 0, ai |-> 0, prompt |-> 0,
     rec_fail |-> 0, rec_succ |-> 0, logged |-> 0]

\* _attempt_repair has not asked the AI backend
NoResponse == [kind |-> "none", text |-> <<>>]

\* what the breaker and the safety controller hold
SharedState == [counts |-> failure_counts, open |-> open_circuits,
                failed |-> last_action_failed]

InitShell ==
    /\ failure_counts = <<>>
    /\ open_circuits = {}
    /\ consecutive = [k \in Keys |-> 0]
    /\ last_call = <<"none", "none">>
    /\ last_action_failed = FALSE
    /\ red_action_log = <<>>
    /\ repair_log = <<>>
    /\ ai_bridge \in {"none", "present"}
    /\ calls = 0
    /\ repair_calls = 0
    /\ pc = [t \in Tasks |-> "idle"]
    /\ args = [t \in Tasks |-> NoArgs]
    /\ result = [t \in Tasks |-> NoResult]
    /\ repair_attempt = [t \in Tasks |-> NoRepair]
    /\ confirmed = [t \in Tasks |-> FALSE]
    /\ obs = [t \in Tasks |-> NoObs]
    /\ fail_streak = [k \in Keys |-> 0]
    /\ unrepaired_streak = [k \in Keys |-> 0]
    /\ ai_response = [t \in Tasks |-> NoResponse]
    /\ user_input = [t \in Tasks |-> "None"]
    /\ base = [counts |-> <<>>, open |-> {}, failed |-> FALSE]
    /\ overlapped = "none"

\* no text has been handed to _classify_error on its own
InitNoMessage ==
    /\ message_text = <<>>
    /\ classified = "unset"

\* ClipboardHistory(auto_monitor=False) and WatchProvider() as constructed
InitMonitors ==
    /\ _monitoring = FALSE
    /\ _monitor_thread = 0
    /\ workers = <<>>
    /\ _active_watches = <<>>
    /\ observers = <<>>
    /\ caller = [op |-> "idle"]
    /\ monitor_op = [op |-> "none"]

\* ProviderRegistry() as constructed
InitRegistry ==
    /\ _providers = <<>>
    /\ _trigger_index = <<>>
    /\ registrations = <<>>

\* no input has been matched yet
InitMatcher ==
    /\ match_call = [done |-> FALSE]
    /\ adapter_call = [done |-> FALSE]

DEFAULT_MAX_ENTRIES == 100

\* ClipboardHistory() as constructed where there is no history file
InitClipboard ==
    /\ _entries = <<>>
    /\ _last_content = "None"
    /\ max_entries = DEFAULT_MAX_ENTRIES
    /\ storage = <<>>
    /\ clip_op = [op |-> "none"]

\* SessionState(session_id): an empty history
InitSession ==
    /\ command_history = <<>>
    /\ session_op = [op |-> "none"]

\* no text has been handed to _extract_suggestion on its own
InitNoResponse ==
    /\ extract_text = <<>>
    /\ extracted = "unset"

\* the threads that call add_entry: the monitor thread and a foreground caller
AdderThreads == {"monitor", "foreground"}

NoContent == [content |-> "", content_type |-> "none"]

\* no thread is inside add_entry
InitAdders ==
    /\ adder = [th \in AdderThreads |-> [pc |-> "idle", content |-> NoContent]]
    /\ accepted = <<>>

InitComponents ==
    /\ InitMonitors /\ InitRegistry /\ InitMatcher /\ InitClipboard /\ InitSession
    /\ InitNoResponse /\ InitAdders

Init ==
    /\ InitShell
    /\ InitNoMessage
    /\ InitComponents

----------------------------------------------------------------------------
(* Scheduling: one event loop.  A task runs from one await to the next      *)
(* without interruption; the only await that suspends is provider.execute.  *)

Resting == {"idle", "done", "raised"}
YieldPoints == Resting \cup {"awaiting"}

CanStep(t) == \A u \in Tasks \ {t} : pc[u] \in YieldPoints

Goto(t, label) == pc' = [pc EXCEPT ![t] = label]

Note(t, what) == obs' = [obs EXCEPT ![t][what] = @ + 1]

KeyOf(t) == command_key(args[t].provider_name, args[t].intent_name)

\* execute_with_healing returns (res, rep)
Return(t, res, rep) ==
    /\ Goto(t, "done")
    /\ result' = [result EXCEPT ![t] = res]
    /\ repair_attempt' = [repair_attempt EXCEPT ![t] = rep]
    /\ fail_streak' = [fail_streak EXCEPT ![KeyOf(t)] = IF res.success THEN 0 ELSE @ + 1]
    /\ unrepaired_streak' =
         [unrepaired_streak EXCEPT ![KeyOf(t)] =
             IF res.success \/ rep.status = "SUCCESS" THEN 0 ELSE @ + 1]

\* execute_intent returns res to execute_with_healing (executor.py 161)
PlannerReturn(t, res) ==
    /\ Goto(t, "stage2")
    /\ result' = [result EXCEPT ![t] = res]

----------------------------------------------------------------------------
(* executor.py 130-161: execute_with_healing is called; on a closed circuit *)
(* it calls planner.execute_intent(intent_match, context)                   *)

\* counts the rejected call as one more failure of the key
Call_execute_with_healing_counted(t, p, i, allow, budget) ==
    /\ pc[t] \in Resting
    /\ CanStep(t)
    /\ calls < budget
    /\ calls' = calls + 1
    /\ repair_calls' = IF allow THEN repair_calls + 1 ELSE repair_calls
    /\ LET a == [provider_name |-> p, intent_name |-> i,
                 original_input |-> "typed text", confidence |-> "0.9",
                 allow_repairs |-> allow, skip_safety_check |-> FALSE]
           k == command_key(p, i)
       IN /\ args' = [args EXCEPT ![t] = a]
          /\ confirmed' = [confirmed EXCEPT ![t] = FALSE]
          /\ ai_response' = [ai_response EXCEPT ![t] = NoResponse]
          /\ user_input' = [user_input EXCEPT ![t] = "None"]
          /\ IF is_open(k)
             THEN /\ Goto(t, "done")
                  /\ result' = [result EXCEPT ![t] = CircuitOpenResult(k)]
                  /\ repair_attempt' = [repair_attempt EXCEPT ![t] = NoRepair]
                  /\ fail_streak' = [fail_streak EXCEPT ![k] = @ + 1]
                  /\ unrepaired_streak' = [unrepaired_streak EXCEPT ![k] = @ + 1]
                  /\ obs' = [obs EXCEPT ![t] = NoObs]
                  /\ record_failure(k)
             ELSE /\ Goto(t, "planner")
                  /\ result' = [result EXCEPT ![t] = NoResult]
                  /\ repair_attempt' = [repair_attempt EXCEPT ![t] = NoRepair]
                  /\ obs' = [obs EXCEPT ![t] = [NoObs EXCEPT !.planner = 1]]
                  /\ UNCHANGED <<streak_vars, breaker_vars>>
    /\ UNCHANGED <<safety_vars, repair_log, ai_bridge, classify_vars, component_vars>>

Call_execute_with_healing(t, p, i, allow, budget) ==
    /\ pc[t] \in Resting
    /\ CanStep(t)
    /\ calls < budget
    /\ calls' = calls + 1
    /\ repair_calls' = IF allow THEN repair_calls + 1 ELSE repair_calls
    /\ LET a == [provider_name |-> p, intent_name |-> i,
                 original_input |-> "typed text", confidence |-> "0.9",
                 allow_repairs |-> allow, skip_safety_check |-> FALSE]
           k == command_key(p, i)
       IN /\ args' = [args EXCEPT ![t] = a]
          /\ confirmed' = [confirmed EXCEPT ![t] = FALSE]
          /\ ai_response' = [ai_response EXCEPT ![t] = NoResponse]
          /\ user_input' = [user_input EXCEPT ![t] = "None"]
          /\ IF is_open(k)
             THEN /\ Goto(t, "done")
                  /\ result' = [result EXCEPT ![t] = CircuitOpenResult(k)]
                  /\ repair_attempt' = [repair_attempt EXCEPT ![t] = NoRepair]
                  /\ fail_streak' = [fail_streak EXCEPT ![k] = @ + 1]
                  /\ unrepaired_streak' = [unrepaired_streak EXCEPT ![k] = @ + 1]
                  /\ obs' = [obs EXCEPT ![t] = NoObs]
             ELSE /\ Goto(t, "planner")
                  /\ result' = [result EXCEPT ![t] = NoResult]
                  /\ repair_attempt' = [repair_attempt EXCEPT ![t] = NoRepair]
                  /\ obs' = [obs EXCEPT ![t] = [NoObs EXCEPT !.planner = 1]]
                  /\ UNCHANGED streak_vars
    /\ UNCHANGED <<breaker_vars, safety_vars, repair_log, ai_bridge,
                   classify_vars, component_vars>>

----------------------------------------------------------------------------
(* planner.py 51-109: execute_intent *)

\* returns the not-found failure without recording it
PlannerResolve_unrecorded(t) ==
    /\ pc[t] = "planner"
    /\ CanStep(t)
    /\ IF get_provider(args[t].provider_name) = "None"
       THEN /\ PlannerReturn(t, NotFoundResult(args[t].provider_name))
            /\ UNCHANGED last_action_failed
       ELSE /\ Goto(t, IF args[t].skip_safety_check THEN "execute" ELSE "safety")
            /\ UNCHANGED <<result, last_action_failed>>
    /\ UNCHANGED <<breaker_vars, red_action_log, repair_log, ai_bridge,
                   overlap_vars, classify_vars, component_vars, calls, repair_calls, args,
                   ai_response, user_input, repair_attempt, confirmed, obs,
                   streak_vars>>

\* 51-63: resolve the provider
PlannerResolve(t) ==
    /\ pc[t] = "planner"
    /\ CanStep(t)
    /\ IF get_provider(args[t].provider_name) = "None"
       THEN /\ PlannerReturn(t, NotFoundResult(args[t].provider_name))
            /\ record_action_result(FALSE)
       ELSE /\ Goto(t, IF args[t].skip_safety_check THEN "execute" ELSE "safety")
            /\ UNCHANGED <<result, last_action_failed>>
    /\ UNCHANGED <<breaker_vars, red_action_log, repair_log, ai_bridge,
                   overlap_vars, classify_vars, component_vars, calls, repair_calls, args,
                   ai_response, user_input, repair_attempt, confirmed, obs,
                   streak_vars>>

\* 64-66: the safety level and whether it needs a confirmation
SafetyCheck(t) ==
    /\ pc[t] = "safety"
    /\ CanStep(t)
    /\ Note(t, "safety_level")
    /\ Goto(t, IF requires_confirmation(args[t].intent_name, FALSE)
               THEN "confirm" ELSE "execute")
    /\ UNCHANGED <<breaker_vars, safety_vars, repair_log, ai_bridge,
                   overlap_vars, classify_vars, component_vars, calls, repair_calls, args,
                   ai_response, user_input, result, repair_attempt, confirmed,
                   streak_vars>>

\* 67-72 and safety.py 121-177: request_confirmation, the human answers r
RequestConfirmation(t, r) ==
    /\ pc[t] = "confirm"
    /\ CanStep(t)
    /\ Note(t, "confirm")
    /\ confirmed' = [confirmed EXCEPT ![t] = IsYes(r)]
    /\ red_action_log' = RedLogAfter(red_action_log, args[t].intent_name,
                                     args[t].provider_name,
                                     get_safety_level(args[t].intent_name), IsYes(r))
    /\ Goto(t, "decide")
    /\ UNCHANGED <<breaker_vars, last_action_failed, repair_log, ai_bridge,
                   overlap_vars, classify_vars, component_vars, calls, repair_calls, args,
                   ai_response, user_input, result, repair_attempt,
                   streak_vars>>

\* goes on to the provider whatever the answer
PlannerDecide_ignores_answer(t) ==
    /\ pc[t] = "decide"
    /\ CanStep(t)
    /\ Goto(t, "execute")
    /\ UNCHANGED <<result, last_action_failed>>
    /\ UNCHANGED <<breaker_vars, red_action_log, repair_log, ai_bridge,
                   overlap_vars, classify_vars, component_vars, calls, repair_calls, args,
                   ai_response, user_input, repair_attempt, confirmed, obs,
                   streak_vars>>

\* 74-81: a declined confirmation ends the call
PlannerDecide(t) ==
    /\ pc[t] = "decide"
    /\ CanStep(t)
    /\ IF ~confirmed[t]
       THEN /\ PlannerReturn(t, CancelledResult(get_safety_level(args[t].intent_name)))
            /\ record_action_result(FALSE)
       ELSE /\ Goto(t, "execute")
            /\ UNCHANGED <<result, last_action_failed>>
    /\ UNCHANGED <<breaker_vars, red_action_log, repair_log, ai_bridge,
                   overlap_vars, classify_vars, component_vars, calls, repair_calls, args,
                   ai_response, user_input, repair_attempt, confirmed, obs,
                   streak_vars>>

\* 89-93: provider.execute is called and awaited
ProviderInvoke(t) ==
    /\ pc[t] = "execute"
    /\ CanStep(t)
    /\ Note(t, "provider")
    /\ Goto(t, "awaiting")
    /\ UNCHANGED <<breaker_vars, safety_vars, repair_log, ai_bridge,
                   overlap_vars, classify_vars, component_vars, calls, repair_calls, args,
                   ai_response, user_input, result, repair_attempt, confirmed,
                   streak_vars>>

\* 90-109: the provider finishes; an exception it raises is not caught here
\* nor in execute_with_healing, so it leaves the pipeline
ProviderComplete(t, out) ==
    /\ pc[t] = "awaiting"
    /\ CanStep(t)
    /\ IF out.kind = "raise"
       THEN /\ Goto(t, "raised")
            /\ UNCHANGED <<result, last_action_failed>>
       ELSE /\ PlannerReturn(t, WithProvenance(out, args[t]))
            /\ record_action_result(out.success)
    /\ UNCHANGED <<breaker_vars, red_action_log, repair_log, ai_bridge,
                   overlap_vars, classify_vars, component_vars, calls, repair_calls, args,
                   ai_response, user_input, repair_attempt, confirmed, obs,
                   streak_vars>>

----------------------------------------------------------------------------
(* executor.py 160-198: execute_with_healing after the planner returned *)

\* with repairs off the failure is returned without being counted
Stage2_uncounted(t) ==
    /\ pc[t] = "stage2"
    /\ CanStep(t)
    /\ IF result[t].success
       THEN /\ record_success(KeyOf(t))
            /\ Note(t, "rec_succ")
            /\ Return(t, result[t], NoRepair)
       ELSE IF ~args[t].allow_repairs
       THEN /\ UNCHANGED <<breaker_vars, obs>>
            /\ Return(t, result[t], NoRepair)
       ELSE /\ Goto(t, "classify")
            /\ UNCHANGED <<breaker_vars, result, repair_attempt, obs,
                           streak_vars>>
    /\ UNCHANGED <<safety_vars, repair_log, ai_bridge, overlap_vars,
                   classify_vars, component_vars, calls, repair_calls, args, ai_response,
                   user_input, confirmed>>

\* 163-171: success closes the circuit; a failure with repairs off is counted
Stage2(t) ==
    /\ pc[t] = "stage2"
    /\ CanStep(t)
    /\ IF result[t].success
       THEN /\ record_success(KeyOf(t))
            /\ Note(t, "rec_succ")
            /\ Return(t, result[t], NoRepair)
       ELSE IF ~args[t].allow_repairs
       THEN /\ record_failure(KeyOf(t))
            /\ Note(t, "rec_fail")
            /\ Return(t, result[t], NoRepair)
       ELSE /\ Goto(t, "classify")
            /\ UNCHANGED <<breaker_vars, result, repair_attempt, obs,
                           streak_vars>>
    /\ UNCHANGED <<safety_vars, repair_log, ai_bridge, overlap_vars,
                   classify_vars, component_vars, calls, repair_calls, args, ai_response,
                   user_input, confirmed>>

\* asks the AI backend for a fix without asking whether it is available
Classify_availability_unasked(t, avail) ==
    /\ pc[t] = "classify"
    /\ CanStep(t)
    /\ LET error_type == _classify_error(result[t].message)
       IN
       IF error_type = "None" \/ ai_bridge = "none"
       THEN /\ record_failure(KeyOf(t))
            /\ obs' = [obs EXCEPT ![t].classify = @ + 1, ![t].rec_fail = @ + 1]
            /\ Return(t, result[t], NoRepair)
       ELSE /\ obs' = [obs EXCEPT ![t].classify = @ + 1, ![t].asked = @ + 1,
                                  ![t].available = @ + (IF avail THEN 1 ELSE 0)]
            /\ Goto(t, "repair_ai")
            /\ repair_attempt' = [repair_attempt EXCEPT ![t] =
                  [NoRepair EXCEPT !.error_type = error_type, !.status = "pending"]]
            /\ UNCHANGED <<breaker_vars, result, streak_vars>>
    /\ UNCHANGED <<safety_vars, repair_log, ai_bridge, overlap_vars,
                   classify_vars, component_vars, calls, repair_calls, args, ai_response,
                   user_input, confirmed>>

\* 173-178: classify the message; without a class or an AI backend the
\* failure is counted.  avail is what ai_bridge.is_available() answers
Classify(t, avail) ==
    /\ pc[t] = "classify"
    /\ CanStep(t)
    /\ LET error_type == _classify_error(result[t].message)
           asks == IF error_type # "None" /\ ai_bridge # "none" THEN 1 ELSE 0
       IN
       IF error_type = "None" \/ ai_bridge = "none" \/ ~avail
       THEN /\ record_failure(KeyOf(t))
            /\ obs' = [obs EXCEPT ![t].classify = @ + 1, ![t].asked = @ + asks,
                                  ![t].rec_fail = @ + 1]
            /\ Return(t, result[t], NoRepair)
       ELSE /\ obs' = [obs EXCEPT ![t].classify = @ + 1, ![t].asked = @ + 1,
                                  ![t].available = @ + 1]
            /\ Goto(t, "repair_ai")
            /\ repair_attempt' = [repair_attempt EXCEPT ![t] =
                  [NoRepair EXCEPT !.error_type = error_type, !.status = "pending"]]
            /\ UNCHANGED <<breaker_vars, result, streak_vars>>
    /\ UNCHANGED <<safety_vars, repair_log, ai_bridge, overlap_vars,
                   classify_vars, component_vars, calls, repair_calls, args, ai_response,
                   user_input, confirmed>>

\* 252-284 and 318-329: ask the AI backend and parse its answer
RepairGenerate(t, resp) ==
    /\ pc[t] = "repair_ai"
    /\ CanStep(t)
    /\ Note(t, "ai")
    /\ ai_response' = [ai_response EXCEPT ![t] = resp]
    /\ LET error_type == repair_attempt[t].error_type
           suggestion == _extract_suggestion(resp.text)
       IN IF resp.kind = "raise" \/ resp.text = <<>> \/ suggestion \in {"None", "empty"}
          THEN /\ repair_attempt' = [repair_attempt EXCEPT ![t] =
                    RepairAttempt(args[t], result[t], error_type, "None", "FAILED", 0)]
               /\ Goto(t, "repair_log")
          ELSE /\ repair_attempt' = [repair_attempt EXCEPT ![t] =
                    RepairAttempt(args[t], result[t], error_type,
                                  suggested_fix_of(suggestion), "pending", 0)]
               /\ Goto(t, "repair_prompt")
    /\ UNCHANGED <<breaker_vars, safety_vars, repair_log, ai_bridge,
                   overlap_vars, classify_vars, component_vars, calls, repair_calls, args,
                   user_input, result, confirmed, streak_vars>>

\* runs the intent again when the human accepts the fix
RepairPrompt_retries(t, r) ==
    /\ pc[t] = "repair_prompt"
    /\ CanStep(t)
    /\ Note(t, "prompt")
    /\ user_input' = [user_input EXCEPT ![t] =
                        IF r = EndOfInput THEN @ ELSE StripLower(r)]
    /\ repair_attempt' = [repair_attempt EXCEPT ![t] =
          IF r = EndOfInput
          THEN RepairAttempt(args[t], result[t], @.error_type, "None", "FAILED", 0)
          ELSE IF ~IsYes(r)
          THEN RepairAttempt(args[t], result[t], @.error_type, @.suggested_fix,
                             "USER_DECLINED", 0)
          ELSE RepairAttempt(args[t], result[t], @.error_type, @.suggested_fix,
                             "SUCCESS", 1)]
    /\ Goto(t, IF r # EndOfInput /\ IsYes(r) THEN "execute" ELSE "repair_log")
    /\ UNCHANGED <<breaker_vars, safety_vars, repair_log, ai_bridge,
                   overlap_vars, classify_vars, component_vars, calls, repair_calls, args,
                   ai_response, result, confirmed, streak_vars>>

\* 286-316: the human is shown the fix and answers r; 318-329: an input()
\* that raises ends the attempt as FAILED
RepairPrompt(t, r) ==
    /\ pc[t] = "repair_prompt"
    /\ CanStep(t)
    /\ Note(t, "prompt")
    /\ user_input' = [user_input EXCEPT ![t] =
                        IF r = EndOfInput THEN @ ELSE StripLower(r)]
    /\ repair_attempt' = [repair_attempt EXCEPT ![t] =
          IF r = EndOfInput
          THEN RepairAttempt(args[t], result[t], @.error_type, "None", "FAILED", 0)
          ELSE IF ~IsYes(r)
          THEN RepairAttempt(args[t], result[t], @.error_type, @.suggested_fix,
                             "USER_DECLINED", 0)
          ELSE RepairAttempt(args[t], result[t], @.error_type, @.suggested_fix,
                             "SUCCESS", 1)]
    /\ Goto(t, "repair_log")
    /\ UNCHANGED <<breaker_vars, safety_vars, repair_log, ai_bridge,
                   overlap_vars, classify_vars, component_vars, calls, repair_calls, args,
                   ai_response, result, confirmed, streak_vars>>

\* journals every outcome but a declined fix
log_repair_declines_unwritten(repair) ==
    repair_log' = IF repair.status = "USER_DECLINED"
                  THEN repair_log
                  ELSE Append(repair_log, repair)

\* executor.py 48-65: log_repair appends one line to repairs.jsonl (the
\* append itself is taken to succeed)
log_repair(repair) == repair_log' = Append(repair_log, repair)

\* counts the failure even when the human accepted the fix
RepairLog_accepted_counted(t) ==
    /\ pc[t] = "repair_log"
    /\ CanStep(t)
    /\ log_repair(repair_attempt[t])
    /\ record_failure(KeyOf(t))
    /\ obs' = [obs EXCEPT ![t].logged = @ + 1, ![t].rec_fail = @ + 1]
    /\ Return(t, result[t], repair_attempt[t])
    /\ UNCHANGED <<safety_vars, ai_bridge, overlap_vars, classify_vars, component_vars, calls,
                   repair_calls, args, ai_response, user_input, confirmed>>

\* 188-198: journal the attempt, update the breaker, return
RepairLog(t) ==
    /\ pc[t] = "repair_log"
    /\ CanStep(t)
    /\ log_repair(repair_attempt[t])
    /\ IF repair_attempt[t].status = "SUCCESS"
       THEN /\ record_success(KeyOf(t))
            /\ obs' = [obs EXCEPT ![t].logged = @ + 1, ![t].rec_succ = @ + 1]
       ELSE /\ record_failure(KeyOf(t))
            /\ obs' = [obs EXCEPT ![t].logged = @ + 1, ![t].rec_fail = @ + 1]
    /\ Return(t, result[t], repair_attempt[t])
    /\ UNCHANGED <<safety_vars, ai_bridge, overlap_vars, classify_vars, component_vars, calls,
                   repair_calls, args, ai_response, user_input, confirmed>>

----------------------------------------------------------------------------
(* The shell: one command at a time, each run through the pipeline *)

\* the AI backend at its plainest: it raises, answers nothing, or answers
\* with the JSON object asked for
PlainAnswers == {r \in AIResponses : r.text \in {<<>>, <<"{", "fix", "}">>}}

\* a session of the shell: the commands typed, how many of them, how many
\* with repairs allowed, what the providers and the AI backend may answer,
\* and whether a second command may start while one waits for its provider
ShellSession ==
    [commands |-> Commands, budget |-> MaxCalls, repairs |-> MaxRepairCalls,
     outcomes |-> ProviderOutcomes, answers |-> PlainAnswers, concurrent |-> FALSE]

\* a longer session in which the user keeps retrying the same command, with
\* an AI backend free in what it answers
RepeatSession ==
    [commands |-> RepeatedCommands, budget |-> MaxRepeats, repairs |-> MaxRepeats,
     outcomes |-> ProviderOutcomes, answers |-> AIResponses, concurrent |-> FALSE]

\* a session in which two coroutines run execute_with_healing on the same
\* executor, against providers free in what they return
OverlapSession ==
    [commands |-> {<<"system_monitor", "launch_notepad">>},
     budget |-> MaxOverlapCalls, repairs |-> MaxRepairCalls,
     outcomes |-> ProviderOutcomes \cup OddOutcomes,
     answers |-> PlainAnswers, concurrent |-> TRUE]

OtherTask(t) == CHOOSE u \in Tasks : u # t

\* which invocations overlap: kept only in a concurrent session, where an
\* invocation may start while at most one other is in flight
TrackOverlap(t, concurrent) ==
    IF ~concurrent
    THEN UNCHANGED overlap_vars
    ELSE IF pc[OtherTask(t)] \in Resting
    THEN /\ base' = SharedState
         /\ overlapped' = "none"
    ELSE /\ overlapped = "none"
         /\ overlapped' = OtherTask(t)
         /\ UNCHANGED base

\* the invocation in flight runs on: its own code, and the provider, the AI
\* backend and the human answering it
Advance(t, session) ==
    \/ PlannerResolve(t)
    \/ SafetyCheck(t)
    \/ \E r \in Responses : RequestConfirmation(t, r)
    \/ PlannerDecide(t)
    \/ ProviderInvoke(t)
    \/ \E out \in session.outcomes : ProviderComplete(t, out)
    \/ Stage2(t)
    \/ \E avail \in BOOLEAN : Classify(t, avail)
    \/ \E resp \in session.answers : RepairGenerate(t, resp)
    \/ \E r \in Responses \cup {EndOfInput} : RepairPrompt(t, r)
    \/ RepairLog(t)

Step(t, session) ==
    \/ \E c \in session.commands, allow \in BOOLEAN :
          /\ allow => repair_calls < session.repairs
          /\ Call_execute_with_healing(t, c[1], c[2], allow, session.budget)
          /\ TrackOverlap(t, session.concurrent)
    \/ Advance(t, session)

Next == Step(MainTask, ShellSession)

Spec == Init /\ [][Next]_vars

NextRepeat == Step(MainTask, RepeatSession)

SpecRepeat == Init /\ [][NextRepeat]_vars

\* a short session of one command in which whoever is asked does answer
LiveSession ==
    [commands |-> RepeatedCommands, budget |-> MaxCalls, repairs |-> MaxCalls,
     outcomes |-> ProviderOutcomes, answers |-> AIResponses, concurrent |-> FALSE]

NextLive == Step(MainTask, LiveSession)

SpecLive == Init /\ [][NextLive]_vars /\ WF_vars(Advance(MainTask, LiveSession))

\* a longer session of two commands of one provider, a RED one and a YELLOW
\* one, long enough for a circuit to open and be met again after a success
MaxMixedCalls == 5

MixedCommands ==
    {<<"system_monitor", "kill_process">>, <<"system_monitor", "launch_notepad">>}

MixedSession ==
    [commands |-> MixedCommands, budget |-> MaxMixedCalls, repairs |-> MaxRepairCalls,
     outcomes |-> ProviderOutcomes, answers |-> PlainAnswers, concurrent |-> FALSE]

NextMixed == Step(MainTask, MixedSession)

SpecMixed == Init /\ [][NextMixed]_vars

NextOverlap == \E t \in Tasks : Step(t, OverlapSession)

SpecOverlap == Init /\ [][NextOverlap]_vars

----------------------------------------------------------------------------
(* The CircuitBreaker on its own, driven through its public methods *)

BreakerRecordFailure(k) ==
    /\ calls < MaxBreakerCalls
    /\ calls' = calls + 1
    /\ record_failure(k)
    /\ UNCHANGED <<safety_vars, repair_log, ai_bridge, overlap_vars,
                   classify_vars, component_vars, repair_calls, task_vars, streak_vars>>

BreakerRecordSuccess(k) ==
    /\ calls < MaxBreakerCalls
    /\ calls' = calls + 1
    /\ record_success(k)
    /\ UNCHANGED <<safety_vars, repair_log, ai_bridge, overlap_vars,
                   classify_vars, component_vars, repair_calls, task_vars, streak_vars>>

NextBreaker ==
    \/ \E k \in Keys : BreakerRecordFailure(k)
    \/ \E k \in Keys : BreakerRecordSuccess(k)

SpecBreaker == Init /\ [][NextBreaker]_vars

----------------------------------------------------------------------------
(* _classify_error on its own, applied to every short message *)

\* the fragments a message is made of: the five phrases the classifier
\* looks for, each in lower case and in another case, and a neutral word
Fragments ==
    {"error", "not found", "NOT FOUND", "does not exist", "Does Not Exist",
     "permission", "Permission", "access denied", "Access Denied",
     "timeout", "TIMEOUT"}

Messages == UNION {[1..n -> Fragments] : n \in 0..MaxFragments}

InitClassify ==
    /\ InitShell
    /\ message_text \in Messages
    /\ classified = "unset"
    /\ InitComponents

ApplyClassify ==
    /\ classified = "unset"
    /\ classified' = _classify_error(message_text)
    /\ UNCHANGED <<breaker_vars, safety_vars, repair_log, ai_bridge, calls,
                   repair_calls, task_vars, streak_vars, overlap_vars,
                   message_text, component_vars>>

NextClassify == ApplyClassify

SpecClassify == InitClassify /\ [][NextClassify]_vars

-----------------------------------------------------------------------------
(* _extract_suggestion on its own: every text of a few fragments             *)

MaxTextLen == 4

\* the fragments of a text: braces, an object member, prose
TextFragments == {"{", "}", "fix", "sorry"}

Texts == UNION {[1..n -> TextFragments] : n \in 0..MaxTextLen}

InitExtract ==
    /\ InitShell
    /\ InitNoMessage
    /\ InitMonitors /\ InitRegistry /\ InitMatcher /\ InitClipboard /\ InitSession
    /\ InitAdders
    /\ extract_text \in Texts
    /\ extracted = "unset"

ApplyExtract ==
    /\ extracted = "unset"
    /\ extracted' = _extract_suggestion(extract_text)
    /\ UNCHANGED <<breaker_vars, safety_vars, repair_log, ai_bridge, calls,
                   repair_calls, task_vars, streak_vars, overlap_vars,
                   classify_vars, monitor_vars, registry_vars, matcher_vars,
                   clipboard_vars, session_vars, adder_vars, extract_text>>

NextExtract == ApplyExtract

SpecExtract == InitExtract /\ [][NextExtract]_vars

----------------------------------------------------------------------------
(* The background monitors: ClipboardHistory's monitor thread and the       *)
(* WatchProvider's filesystem observers.  The foreground caller, each        *)
(* monitor thread and each observer thread take their own steps.            *)

\* calls of start/stop made on the monitors (SpecMonitor)
MaxMonitorCalls == 4

\* f"downloads_{file_extension or 'all'}"
WatchIds == {"downloads_all", "downloads_.pdf"}

\* the position of watch_id in the dict, 0 when it is not a key
WatchIndex(watches, watch_id) ==
    IF \E i \in 1..Len(watches) : watches[i].id = watch_id
    THEN CHOOSE i \in 1..Len(watches) : watches[i].id = watch_id
    ELSE 0

\* self._active_watches[watch_id] = observer: a new key goes last, a key
\* already there keeps its place and takes the new value
WatchesSet(watches, watch_id, observer) ==
    IF WatchIndex(watches, watch_id) = 0
    THEN Append(watches, [id |-> watch_id, observer |-> observer])
    ELSE [watches EXCEPT ![WatchIndex(watches, watch_id)].observer = observer]

\* Thread.join(timeout=2.0): returns when the thread has ended or when the
\* timeout has run out, whichever is first
join(thread_state, timeout) == thread_state = "exited" \/ timeout # "None"

MonitorDone(op, found) ==
    /\ calls' = calls + 1
    /\ monitor_op' = [op |-> op, found |-> found]

start_monitoring ==
    /\ caller.op = "idle"
    /\ calls < MaxMonitorCalls
    /\ MonitorDone("start_monitoring", _monitoring)
    /\ IF _monitoring
       THEN UNCHANGED <<_monitoring, _monitor_thread, workers>>
       ELSE /\ _monitoring' = TRUE
            /\ workers' = Append(workers, "test")
            /\ _monitor_thread' = Len(workers) + 1
    /\ UNCHANGED <<_active_watches, observers, caller>>

stop_monitoring ==
    /\ caller.op = "idle"
    /\ calls < MaxMonitorCalls
    /\ MonitorDone("stop_monitoring", _monitoring)
    /\ IF ~_monitoring
       THEN UNCHANGED <<_monitoring, caller>>
       ELSE /\ _monitoring' = FALSE
            /\ caller' = IF _monitor_thread # 0
                         THEN [op |-> "join_monitor"]
                         ELSE [op |-> "idle"]
    /\ UNCHANGED <<_monitor_thread, workers, _active_watches, observers>>

\* self._monitor_thread.join(timeout=2.0) returns
MonitorJoinReturn ==
    /\ caller.op = "join_monitor"
    /\ join(workers[_monitor_thread], "2.0")
    /\ caller' = [op |-> "idle"]
    /\ UNCHANGED <<_monitoring, _monitor_thread, workers, _active_watches,
                   observers, monitor_op, calls>>

\* _monitor_loop: the test of `while self._monitoring`
MonitorLoopTest(w) ==
    /\ workers[w] = "test"
    /\ workers' = [workers EXCEPT ![w] = IF _monitoring THEN "body" ELSE "exited"]
    /\ UNCHANGED <<_monitoring, _monitor_thread, _active_watches, observers,
                   caller, monitor_op, calls>>

\* _monitor_loop: one pass of the body (read the clipboard, add_entry, sleep)
MonitorLoopBody(w) ==
    /\ workers[w] = "body"
    /\ workers' = [workers EXCEPT ![w] = "test"]
    /\ UNCHANGED <<_monitoring, _monitor_thread, _active_watches, observers,
                   caller, monitor_op, calls>>

\* WatchProvider._watch_downloads: `ready` is whether watchdog is installed
\* and the Downloads folder exists
_watch_downloads(watch_id, ready) ==
    /\ caller.op = "idle"
    /\ calls < MaxMonitorCalls
    /\ MonitorDone("watch_downloads", WatchIndex(_active_watches, watch_id) # 0)
    /\ IF ready
       THEN /\ observers' = Append(observers, "running")
            /\ _active_watches' = WatchesSet(_active_watches, watch_id, Len(observers) + 1)
       ELSE UNCHANGED <<_active_watches, observers>>
    /\ UNCHANGED <<_monitoring, _monitor_thread, workers, caller>>

\* WatchProvider._stop_watch, up to its first join
_stop_watch ==
    /\ caller.op = "idle"
    /\ calls < MaxMonitorCalls
    /\ MonitorDone("stop_watch", _active_watches # <<>>)
    /\ caller' = IF _active_watches = <<>>
                 THEN [op |-> "idle"]
                 ELSE [op |-> "stop_watch", at |-> 1, joining |-> FALSE]
    /\ UNCHANGED <<_monitoring, _monitor_thread, workers, _active_watches, observers>>

\* the loop of _stop_watch has passed the watch at caller.at: after the
\* last one, self._active_watches.clear() and the result is returned
StopWatchPassed ==
    IF caller.at = Len(_active_watches)
    THEN /\ _active_watches' = <<>>
         /\ caller' = [op |-> "idle"]
    ELSE /\ caller' = [caller EXCEPT !.at = @ + 1, !.joining = FALSE]
         /\ UNCHANGED _active_watches

\* observer.stop() for the watch at caller.at; `raises`: it throws, which
\* the handler logs, going on to the next watch
StopWatchStop(raises) ==
    /\ caller.op = "stop_watch"
    /\ ~caller.joining
    /\ IF raises
       THEN /\ StopWatchPassed
            /\ UNCHANGED observers
       ELSE /\ observers' = [observers EXCEPT ![_active_watches[caller.at].observer] =
                                IF @ = "running" THEN "stopping" ELSE @]
            /\ caller' = [caller EXCEPT !.joining = TRUE]
            /\ UNCHANGED _active_watches
    /\ UNCHANGED <<_monitoring, _monitor_thread, workers, monitor_op, calls>>

\* observer.join(timeout=2) returns
StopWatchJoinReturn ==
    /\ caller.op = "stop_watch"
    /\ caller.joining
    /\ join(observers[_active_watches[caller.at].observer], "2")
    /\ StopWatchPassed
    /\ UNCHANGED <<_monitoring, _monitor_thread, workers, observers, monitor_op, calls>>

\* an observer thread that was told to stop ends
ObserverExit(o) ==
    /\ observers[o] = "stopping"
    /\ observers' = [observers EXCEPT ![o] = "exited"]
    /\ UNCHANGED <<_monitoring, _monitor_thread, workers, _active_watches,
                   caller, monitor_op, calls>>

\* the steps of the foreground caller inside a stop
CallerReturns ==
    \/ MonitorJoinReturn
    \/ \E raises \in BOOLEAN : StopWatchStop(raises)
    \/ StopWatchJoinReturn

\* the steps of the background threads
Background ==
    \/ \E w \in 1..Len(workers) : MonitorLoopTest(w)
    \/ \E w \in 1..Len(workers) : MonitorLoopBody(w)
    \/ \E o \in 1..Len(observers) : ObserverExit(o)

outside_monitor == <<failure_counts, open_circuits, consecutive, last_call,
                     last_action_failed, red_action_log, repair_log, ai_bridge,
                     repair_calls, pc, args, result, repair_attempt, confirmed, obs,
                     fail_streak, unrepaired_streak, ai_response, user_input, base,
                     overlapped, message_text, classified, registry_vars,
                     matcher_vars,
                      clipboard_vars, session_vars, extract_vars, adder_vars>>

NextMonitor ==
    /\ \/ start_monitoring
       \/ stop_monitoring
       \/ \E id \in WatchIds, ready \in BOOLEAN : _watch_downloads(id, ready)
       \/ _stop_watch
       \/ CallerReturns
       \/ Background
    /\ UNCHANGED outside_monitor

\* the timeout of a join runs out whatever the threads do: the caller's
\* steps are fair, the threads' steps are not (a thread may never exit)
SpecMonitor == Init /\ [][NextMonitor]_vars /\ WF_vars(CallerReturns /\ UNCHANGED outside_monitor)

----------------------------------------------------------------------------
----------------------------------------------------------------------------
(* The ProviderRegistry and its flat trigger index.  A dict is the          *)
(* sequence of its items in insertion order.                                 *)

\* register calls made on one registry (SpecRegistry, SpecMatcher)
MaxRegistrations == 3

\* IntentTrigger(pattern, intent_name, weight, aliases); a weight is in hundredths
IntentTrigger(pattern, intent_name, weight, aliases) ==
    [pattern |-> pattern, intent_name |-> intent_name, weight |-> weight,
     aliases |-> aliases]

\* provider objects: `obj` tells two instances apart
ProviderObjects ==
    { [obj |-> 1, name |-> "filesystem",
       triggers |-> << IntentTrigger("open desktop", "open_desktop", 100,
                                     <<"show desktop", "desktop">>),
                       IntentTrigger("open downloads", "open_downloads", 100,
                                     <<"downloads">>) >>],
      [obj |-> 2, name |-> "app",
       triggers |-> << IntentTrigger("notepad", "launch_notepad", 150,
                                     <<"desktop">>) >>],
      [obj |-> 3, name |-> "filesystem",
       triggers |-> << IntentTrigger("Open Desktop", "open_desktop", 50,
                                     <<"open desktop">>) >>],
      [obj |-> 4, name |-> "system_monitor",
       triggers |-> << IntentTrigger("check cpu", "check_cpu", 100, <<>>),
                       IntentTrigger("cpu", "cpu_usage", 100, <<"check cpu">>) >>],
      [obj |-> 5, name |-> "app",
       triggers |-> << IntentTrigger("notepad", "open_editor", 100,
                                     <<"notepad">>) >>] }

Max(S) == CHOOSE x \in S : \A y \in S : y <= x

\* trigger declares the string s as its pattern or as one of its aliases
Declares(trigger, s) ==
    s = trigger.pattern \/ \E n \in 1..Len(trigger.aliases) : trigger.aliases[n] = s

DeclaredBy(provider) ==
    UNION {{provider.triggers[j].pattern}
           \cup {provider.triggers[j].aliases[n] :
                   n \in 1..Len(provider.triggers[j].aliases)} :
           j \in 1..Len(provider.triggers)}

\* the position of key k in dict d, 0 when k is not a key
DictIndex(d, k) ==
    IF \E i \in 1..Len(d) : d[i].key = k
    THEN CHOOSE i \in 1..Len(d) : d[i].key = k
    ELSE 0

DictKeys(d) == {d[i].key : i \in 1..Len(d)}

\* d.get(k)
DictGet(d, k) == IF DictIndex(d, k) = 0 THEN "None" ELSE d[DictIndex(d, k)].value

\* d.setdefault(k, v): a key already there keeps its value
DictSetDefault(d, k, v) ==
    IF DictIndex(d, k) = 0 THEN Append(d, [key |-> k, value |-> v]) ELSE d

\* d[k] = v: a new key goes last, a key already there keeps its place and
\* takes the new value
DictSet(d, k, v) ==
    IF DictIndex(d, k) = 0
    THEN Append(d, [key |-> k, value |-> v])
    ELSE [d EXCEPT ![DictIndex(d, k)].value = v]

\* the inner loop of register: self._trigger_index[alias] = (provider, trigger)
RECURSIVE IndexAliases(_, _, _, _)
IndexAliases(index, provider, trigger, n) ==
    IF n > Len(trigger.aliases)
    THEN index
    ELSE IndexAliases(DictSet(index, trigger.aliases[n],
                              [provider |-> provider, trigger |-> trigger]),
                      provider, trigger, n + 1)

\* the outer loop of register, from the n-th trigger on
RECURSIVE IndexTriggers(_, _, _)
IndexTriggers(index, provider, n) ==
    IF n > Len(provider.triggers)
    THEN index
    ELSE IndexTriggers(
             IndexAliases(DictSet(index, provider.triggers[n].pattern,
                                  [provider |-> provider,
                                   trigger |-> provider.triggers[n]]),
                          provider, provider.triggers[n], 1),
             provider, n + 1)

register(provider) ==
    /\ calls < MaxRegistrations
    /\ calls' = calls + 1
    /\ _providers' = DictSet(_providers, provider.name, provider)
    /\ _trigger_index' = IndexTriggers(_trigger_index, provider, 1)
    /\ registrations' = Append(registrations, provider)

\* list(self._providers.values())
get_all_providers == [i \in 1..Len(_providers) |-> _providers[i].value]

\* keeps only the pairs filed under their trigger's pattern
get_all_triggers_under_patterns ==
    LET kept == SelectSeq(_trigger_index,
                          LAMBDA item : item.key = item.value.trigger.pattern)
    IN  [i \in 1..Len(kept) |-> kept[i].value]

\* list(self._trigger_index.values())
get_all_triggers == [i \in 1..Len(_trigger_index) |-> _trigger_index[i].value]

find_provider_for_trigger(pattern) == DictGet(_trigger_index, pattern)

outside_registry == <<failure_counts, open_circuits, consecutive, last_call,
                      last_action_failed, red_action_log, repair_log, ai_bridge,
                      repair_calls, pc, args, result, repair_attempt, confirmed, obs,
                      fail_streak, unrepaired_streak, ai_response, user_input, base,
                      overlapped, message_text, classified, monitor_vars,
                      matcher_vars,
                      clipboard_vars, session_vars, extract_vars, adder_vars>>

NextRegistry ==
    /\ \E provider \in ProviderObjects : register(provider)
    /\ UNCHANGED outside_registry

SpecRegistry == Init /\ [][NextRegistry]_vars

----------------------------------------------------------------------------
(* The semantic matcher (SemanticParser.parse), which reads the trigger      *)
(* index, and the adapter of the native backend's results.  Scores,          *)
(* weights and confidences are in hundredths.                                *)

HIGH_THRESHOLD == 80
LOW_THRESHOLD == 60
\* candidates this close to the top score are suggested together
EPSILON == 5
\* the most suggestions an AmbiguousMatch carries
TOP_K == 5

\* what the user types
MatchInputs == {"open desktop", "OPEN DESKTOP", "Desktop", "opn desktop", "xyz"}

\* str.lower() on the texts of the matcher
LowerText(s) ==
    CASE s = "OPEN DESKTOP" -> "open desktop"
      [] s = "Open Desktop" -> "open desktop"
      [] s = "Desktop" -> "desktop"
      [] OTHER -> s

\* every string a trigger may declare
MatchStrings == UNION {DeclaredBy(provider) : provider \in ProviderObjects}

\* the raw similarity the backend computes, as a table by trigger string:
\* one string stands out at level a, the others are at level b
SimilarityTables ==
    { [s \in MatchStrings |-> IF s = h THEN a ELSE b] :
        h \in {"desktop", "notepad", "open desktop", "cpu"},
        a \in {55, 70, 85},
        b \in {0, 70} }

Min(a, b) == IF a <= b THEN a ELSE b

\* the pattern and the aliases of a trigger
TriggerStrings(trigger) == {trigger.pattern} \cup
    {trigger.aliases[n] : n \in 1..Len(trigger.aliases)}

\* the input is, but for case, one of the trigger's strings
ExactMatch(input, trigger) ==
    \E s \in TriggerStrings(trigger) : LowerText(s) = LowerText(input)

\* the weighted score of a trigger: 1.0 on an exact match, else the best
\* raw similarity of its strings times its weight, kept within [0,1]
Score(input, similarity, trigger) ==
    IF ExactMatch(input, trigger)
    THEN 100
    ELSE Min(100, (Max({similarity[s] : s \in TriggerStrings(trigger)})
                   * trigger.weight) \div 100)

\* the candidates: the pairs of the index, each once, in index order
Candidates ==
    LET all == get_all_triggers
        firsts == {i \in 1..Len(all) : \A j \in 1..(i-1) : all[j] # all[i]}
        RECURSIVE Pick(_)
        Pick(S) == IF S = {} THEN <<>>
                   ELSE LET i == CHOOSE x \in S : \A y \in S : x <= y
                        IN  <<all[i]>> \o Pick(S \ {i})
    IN  Pick(firsts)

\* candidate i goes before candidate j: an exact match first, then the
\* higher score, then the higher weight, then the one registered first
Before(input, similarity, cands, i, j) ==
    LET ei == ExactMatch(input, cands[i].trigger)
        ej == ExactMatch(input, cands[j].trigger)
        si == Score(input, similarity, cands[i].trigger)
        sj == Score(input, similarity, cands[j].trigger)
        wi == cands[i].trigger.weight
        wj == cands[j].trigger.weight
    IN  \/ ei /\ ~ej
        \/ ei = ej /\ si > sj
        \/ ei = ej /\ si = sj /\ wi > wj
        \/ ei = ej /\ si = sj /\ wi = wj /\ i < j

\* the candidates of S, best first
RECURSIVE Ranked(_, _, _, _)
Ranked(input, similarity, cands, S) ==
    IF S = {} THEN <<>>
    ELSE LET best == CHOOSE i \in S :
                        \A j \in S \ {i} : Before(input, similarity, cands, i, j)
         IN  <<best>> \o Ranked(input, similarity, cands, S \ {best})

IntentMatch(intent_name, provider_name, confidence, trigger_pattern, original_input, entities, source) ==
    [kind |-> "IntentMatch", intent_name |-> intent_name,
     provider_name |-> provider_name, confidence |-> confidence,
     trigger_pattern |-> trigger_pattern, original_input |-> original_input,
     entities |-> entities, source |-> source]

AmbiguousMatch(original_input, suggestions) ==
    [kind |-> "AmbiguousMatch", original_input |-> original_input,
     suggestions |-> suggestions]

NoMatch == [kind |-> "None"]

\* the IntentMatch for a candidate
MatchFor(input, similarity, cand) ==
    IntentMatch(cand.trigger.intent_name, cand.provider.name,
                Score(input, similarity, cand.trigger), cand.trigger.pattern,
                input, <<>>, "rule_based")

\* SemanticParser.parse(user_input)
parse_match(input, similarity) ==
    LET cands == Candidates
        order == Ranked(input, similarity, cands, 1..Len(cands))
        s_top == Score(input, similarity, cands[order[1]].trigger)
        near == {i \in 1..Len(cands) :
                    Score(input, similarity, cands[i].trigger) >= s_top - EPSILON}
        ranked == Ranked(input, similarity, cands, near)
    IN  IF cands = <<>> THEN NoMatch
        ELSE IF s_top >= HIGH_THRESHOLD
        THEN MatchFor(input, similarity, cands[order[1]])
        ELSE IF s_top >= LOW_THRESHOLD
        THEN AmbiguousMatch(input,
                 [n \in 1..Min(TOP_K, Len(ranked)) |->
                     MatchFor(input, similarity, cands[ranked[n]])])
        ELSE NoMatch

\* the top weighted score of the input over the index, 0 over an empty one
TopScore(input, similarity) ==
    Max({0} \cup {Score(input, similarity, get_all_triggers[i].trigger) :
                    i \in 1..Len(get_all_triggers)})

parse(input, similarity) ==
    /\ ~match_call.done
    /\ ~adapter_call.done
    /\ match_call' = [done |-> TRUE, input |-> input, similarity |-> similarity,
                  result |-> parse_match(input, similarity)]
    /\ UNCHANGED <<adapter_call, registry_vars, calls>>

\* a dict with no keys
NoKeys == [k \in {} |-> 0]

\* d.get(key, default)
DictGetOr(d, key, default) == IF key \in DOMAIN d THEN d[key] ELSE default

\* one entity dict of a backend result
RustEntity == [type |-> "path", value |-> "C:\\test", original |-> "\"C:\\test\"",
               start |-> 5, end |-> 14]

\* one suggestion dict of a backend result
RustSuggestion(intent_name, confidence) ==
    [intent_name |-> intent_name, provider_name |-> "filesystem",
     confidence |-> confidence, trigger_pattern |-> intent_name]

\* the dicts the backend's match_intent may hand back: the keys the adapter
\* reads with .get() or tests with `in` may be missing
RustResults ==
    { [type |-> "match", intent_name |-> "open_desktop",
       provider_name |-> "filesystem", confidence |-> c,
       trigger_pattern |-> "open desktop"] @@ o @@ s @@ e :
        c \in {85, 100},
        o \in {NoKeys, [original_input |-> "Open Desktop"]},
        s \in {NoKeys, [source |-> "rust"]},
        e \in {NoKeys, [entities |-> <<>>], [entities |-> <<RustEntity>>]} }
    \cup
    { [type |-> "ambiguous"] @@ o @@ g :
        o \in {NoKeys, [original_input |-> "Open Desktop"]},
        g \in {NoKeys} \cup
              { [suggestions |-> q] :
                  q \in { <<>>,
                          <<RustSuggestion("open_desktop", 70)>>,
                          <<RustSuggestion("open_desktop", 70),
                            RustSuggestion("open_downloads", 65)>>,
                          <<RustSuggestion("open_downloads", 65),
                            RustSuggestion("open_desktop", 70)>>,
                          <<RustSuggestion("open_desktop", 70),
                            RustSuggestion("open_downloads", 70)>>,
                          <<RustSuggestion("launch_notepad", 105)>> } } }
    \cup
    { [type |-> "none"], [type |-> "error"], NoKeys }

\* Entity(type=..., value=..., original=..., start=..., end=...)
Entity(e_dict) ==
    [type |-> e_dict.type, value |-> e_dict.value, original |-> e_dict.original,
     start |-> e_dict.start, end |-> e_dict.end]

\* takes the first suggestion of an ambiguous result for the match
convert_rust_match_first_suggestion(rust_result, input) ==
    LET suggestions == DictGetOr(rust_result, "suggestions", <<>>)
    IN  IF DictGetOr(rust_result, "type", "None") = "ambiguous" /\ suggestions # <<>>
        THEN IntentMatch(suggestions[1].intent_name, suggestions[1].provider_name,
                         suggestions[1].confidence, suggestions[1].trigger_pattern,
                         input, <<>>, "rule_based")
        ELSE NoMatch

convert_rust_match_to_python(rust_result, input) ==
    LET result_type == DictGetOr(rust_result, "type", "None")
        suggestions == DictGetOr(rust_result, "suggestions", <<>>)
    IN  IF result_type = "match"
        THEN IntentMatch(rust_result.intent_name, rust_result.provider_name,
                         rust_result.confidence, rust_result.trigger_pattern,
                         DictGetOr(rust_result, "original_input", input),
                         IF "entities" \in DOMAIN rust_result
                         THEN [n \in 1..Len(rust_result.entities) |->
                                 Entity(rust_result.entities[n])]
                         ELSE <<>>,
                         DictGetOr(rust_result, "source", "rule_based"))
        ELSE IF result_type = "ambiguous"
        THEN AmbiguousMatch(DictGetOr(rust_result, "original_input", input),
                 [n \in 1..Len(suggestions) |->
                     IntentMatch(suggestions[n].intent_name,
                                 suggestions[n].provider_name,
                                 suggestions[n].confidence,
                                 suggestions[n].trigger_pattern,
                                 input, <<>>, "rule_based")])
        ELSE NoMatch

convert(rust_result, input) ==
    /\ ~match_call.done
    /\ ~adapter_call.done
    /\ adapter_call' = [done |-> TRUE, rust_result |-> rust_result, input |-> input,
                     result |-> convert_rust_match_to_python(rust_result, input)]
    /\ UNCHANGED <<match_call, registry_vars, calls>>

\* providers are registered at start-up, before the first input is matched
RegisterForMatcher(provider) ==
    /\ ~match_call.done
    /\ ~adapter_call.done
    /\ register(provider)
    /\ UNCHANGED <<match_call, adapter_call>>

outside_matcher == <<failure_counts, open_circuits, consecutive, last_call,
                     last_action_failed, red_action_log, repair_log, ai_bridge,
                     repair_calls, pc, args, result, repair_attempt, confirmed, obs,
                     fail_streak, unrepaired_streak, ai_response, user_input, base,
                     overlapped, message_text, classified, monitor_vars,
                      clipboard_vars, session_vars, extract_vars, adder_vars>>

NextMatcher ==
    /\ \/ \E provider \in ProviderObjects : RegisterForMatcher(provider)
       \/ \E input \in MatchInputs, similarity \in SimilarityTables :
             parse(input, similarity)
       \/ \E rust_result \in RustResults, input \in {"open desktop", "opn desktop"} :
             convert(rust_result, input)
    /\ UNCHANGED outside_matcher

SpecMatcher == Init /\ [][NextMatcher]_vars

----------------------------------------------------------------------------
(* ClipboardHistory: the entries in memory and the history file.  A         *)
(* timestamp is the tick of the call that made the entry; the lines of a    *)
(* file left by an earlier run carry earlier ticks.                          *)

\* calls that change a ClipboardHistory: add, clear, construct (SpecClipboard)
MaxClipboardCalls == 4
\* the largest max_entries a ClipboardHistory is constructed with
MaxMaxEntries == 2

DEFAULT_MAX_SIZE_MB == 10

\* s[k:] of Python
PySliceFrom(s, k) ==
    LET from == IF k < 0
                THEN (IF Len(s) + k < 0 THEN 0 ELSE Len(s) + k)
                ELSE (IF k > Len(s) THEN Len(s) ELSE k)
    IN  SubSeq(s, from + 1, Len(s))

\* s[:k] of Python
PySliceTo(s, k) ==
    LET to == IF k < 0
              THEN (IF Len(s) + k < 0 THEN 0 ELSE Len(s) + k)
              ELSE (IF k > Len(s) THEN Len(s) ELSE k)
    IN  SubSeq(s, 1, to)

\* s[::-1] of Python
PyReversed(s) == [i \in 1..Len(s) |-> s[Len(s) + 1 - i]]

\* what add_entry is called with: content and content_type
ClipboardContents ==
    { [content |-> "", content_type |-> "text"],
      [content |-> "  ", content_type |-> "text"],
      [content |-> "a", content_type |-> "text"],
      [content |-> "b", content_type |-> "text"],
      [content |-> "a", content_type |-> "url"],
      [content |-> "<11 MB of text>", content_type |-> "text"] }

\* not content or not content.strip()
IsBlank(content) == content \in {"", "  "}

\* len(content.encode('utf-8')) / (1024 * 1024)
SizeMB(content) == IF content = "<11 MB of text>" THEN 11 ELSE 0

\* ClipboardHistoryEntry(content, timestamp, content_type), with its preview
ClipboardHistoryEntry(content, timestamp, content_type) ==
    [content |-> content, timestamp |-> timestamp, content_type |-> content_type,
     preview |-> IF content = "<11 MB of text>" THEN "<60 characters>..." ELSE content]

\* entry.to_dict(), the JSON line written for an entry
to_dict(entry) ==
    [content |-> entry.content, timestamp |-> entry.timestamp,
     content_type |-> entry.content_type, preview |-> entry.preview]

\* ClipboardHistoryEntry.from_dict(data)
from_dict(data) ==
    ClipboardHistoryEntry(data.content, data.timestamp,
                          DictGetOr(data, "content_type", "text"))

\* a line of a file left by an earlier run
StoredLine(content, timestamp) ==
    to_dict(ClipboardHistoryEntry(content, timestamp, "text"))

\* the history files a ClipboardHistory may find at its storage path; the
\* first is no file (or an empty one), the last has a line written before
\* entries had a content type
StoredFiles ==
    { <<>>,
      <<StoredLine("a", -1)>>,
      <<StoredLine("b", -2), StoredLine("a", -1)>>,
      <<StoredLine("a", -3), StoredLine("b", -2), StoredLine("c", -1)>>,
      <<[content |-> "c", timestamp |-> -1, preview |-> "c"]>> }

\* _load_history: the entries a ClipboardHistory holds after reading the
\* file, with max_entries = limit
_load_history(lines, limit) ==
    LET loaded == [i \in 1..Len(lines) |-> from_dict(lines[i])]
    IN  IF Len(loaded) > limit THEN PySliceFrom(loaded, -limit) ELSE loaded

\* _save_history: the file as rewritten from the entries
_save_history(entries) == [i \in 1..Len(entries) |-> to_dict(entries[i])]

\* a call that changes the history is made: the clock ticks
ClipboardCall(op, argument, returned) ==
    /\ calls < MaxClipboardCalls
    /\ calls' = calls + 1
    /\ clip_op' = [op |-> op, argument |-> argument, returned |-> returned,
                   before |-> _entries]

\* ClipboardHistory(storage_path, max_entries=limit): a new instance on the
\* same file
ClipboardHistory(limit) ==
    /\ ClipboardCall("__init__", <<limit>>, <<>>)
    /\ max_entries' = limit
    /\ _entries' = _load_history(storage, limit)
    /\ _last_content' = "None"
    /\ UNCHANGED storage

\* the entries after add_entry has appended and enforced max_entries
EntriesAfterAdd(entries, entry, limit) ==
    IF Len(entries) + 1 > limit THEN Tail(Append(entries, entry))
    ELSE Append(entries, entry)

add_entry(c) ==
    IF \/ IsBlank(c.content)
       \/ _last_content = c.content
       \/ SizeMB(c.content) > DEFAULT_MAX_SIZE_MB
    THEN /\ ClipboardCall("add_entry", <<c>>, <<FALSE>>)
         /\ UNCHANGED <<_entries, _last_content, storage, max_entries>>
    ELSE /\ ClipboardCall("add_entry", <<c>>, <<TRUE>>)
         /\ _entries' = EntriesAfterAdd(_entries,
                ClipboardHistoryEntry(c.content, calls + 1, c.content_type), max_entries)
         /\ _last_content' = c.content
         /\ storage' = _save_history(_entries')
         /\ UNCHANGED max_entries

\* forgets to rewrite the file
clear_history_unsaved ==
    /\ ClipboardCall("clear_history", <<>>, <<>>)
    /\ _entries' = <<>>
    /\ _last_content' = "None"
    /\ UNCHANGED <<storage, max_entries>>

clear_history ==
    /\ ClipboardCall("clear_history", <<>>, <<>>)
    /\ _entries' = <<>>
    /\ _last_content' = "None"
    /\ storage' = _save_history(_entries')
    /\ UNCHANGED max_entries

\* get_history(limit): limit is <<>> for None and <<n>> for the number n
get_history(limit) ==
    LET entries == PyReversed(_entries)
    IN  IF limit # <<>> /\ limit[1] # 0 THEN PySliceTo(entries, limit[1]) ELSE entries

\* get_entry(index): <<>> for None, <<entry>> for an entry
get_entry(index) ==
    IF index < 1 \/ index > Len(_entries)
    THEN <<>>
    ELSE <<_entries[Len(_entries) + 1 - index]>>

\* a call that only reads the history
ClipboardRead(op, argument, returned) ==
    /\ clip_op' = [op |-> op, argument |-> argument, returned |-> returned,
                   before |-> _entries]
    /\ UNCHANGED <<_entries, _last_content, storage, max_entries, calls>>

CallGetHistory(limit) == ClipboardRead("get_history", limit, get_history(limit))

CallGetEntry(index) == ClipboardRead("get_entry", <<index>>, get_entry(index))

\* the limits and the indexes the readers are called with
HistoryLimits == {<<>>} \cup {<<n>> : n \in -1..(MaxMaxEntries + 1)}
EntryIndexes == -1..(MaxMaxEntries + 2)

outside_clipboard == <<failure_counts, open_circuits, consecutive, last_call,
                       last_action_failed, red_action_log, repair_log, ai_bridge,
                       repair_calls, pc, args, result, repair_attempt, confirmed, obs,
                       fail_streak, unrepaired_streak, ai_response, user_input, base,
                       overlapped, message_text, classified, monitor_vars,
                       registry_vars, matcher_vars, session_vars, extract_vars, adder_vars>>

\* the first ClipboardHistory of the run, constructed on whatever file an
\* earlier run has left
InitClipboardOnFile ==
    /\ storage \in StoredFiles
    /\ max_entries \in 1..MaxMaxEntries
    /\ _entries = _load_history(storage, max_entries)
    /\ _last_content = "None"
    /\ clip_op = [op |-> "__init__", argument |-> <<max_entries>>, returned |-> <<>>,
                  before |-> <<>>]

NextClipboard ==
    /\ \/ \E c \in ClipboardContents : add_entry(c)
       \/ clear_history
       \/ \E limit \in 0..MaxMaxEntries : ClipboardHistory(limit)
       \/ \E limit \in HistoryLimits : CallGetHistory(limit)
       \/ \E index \in EntryIndexes : CallGetEntry(index)
    /\ UNCHANGED outside_clipboard

InitClipboardRun ==
    /\ InitShell
    /\ InitNoMessage
    /\ InitMonitors
    /\ InitRegistry
    /\ InitMatcher
    /\ InitClipboardOnFile
    /\ InitSession
    /\ InitNoResponse
    /\ InitAdders

SpecClipboard == InitClipboardRun /\ [][NextClipboard]_vars

-----------------------------------------------------------------------------
(* add_entry called from two threads, the monitor thread and a foreground    *)
(* caller, on one ClipboardHistory.  The tests for blank and repeated        *)
(* content are made before the lock is taken; the rest runs under the lock.  *)

MaxAdderCalls == 3

\* _monitor_loop: content = get_clipboard_content(); if content: add_entry(content)
MonitorContents ==
    {c \in ClipboardContents : c.content # "" /\ c.content_type = "text"}

ContentsOf(th) == IF th = "monitor" THEN MonitorContents ELSE ClipboardContents

\* add_entry up to `with self._lock`: blank content and content equal to
\* _last_content return False
AddEntryTest(th, c) ==
    /\ adder[th].pc = "idle"
    /\ calls < MaxAdderCalls
    /\ calls' = calls + 1
    /\ adder' = [adder EXCEPT ![th] =
                    IF IsBlank(c.content) \/ _last_content = c.content
                    THEN [pc |-> "idle", content |-> NoContent]
                    ELSE [pc |-> "lock", content |-> c]]
    /\ UNCHANGED <<_entries, _last_content, max_entries, storage, clip_op, accepted>>

\* add_entry under the lock: the size test, append, _last_content, eviction
\* of the oldest entry, the save.  Only one thread holds the lock, so the
\* block is one step.
AddEntryLocked(th) ==
    /\ adder[th].pc = "lock"
    /\ adder' = [adder EXCEPT ![th] = [pc |-> "idle", content |-> NoContent]]
    /\ LET c == adder[th].content
           entry == ClipboardHistoryEntry(c.content, calls, c.content_type)
       IN  IF SizeMB(c.content) > DEFAULT_MAX_SIZE_MB
           THEN UNCHANGED <<_entries, _last_content, storage, accepted>>
           ELSE /\ _entries' = EntriesAfterAdd(_entries, entry, max_entries)
                /\ _last_content' = c.content
                /\ storage' = _save_history(_entries')
                /\ accepted' = Append(accepted, entry)
    /\ UNCHANGED <<max_entries, clip_op, calls>>

outside_adders == <<failure_counts, open_circuits, consecutive, last_call,
                    last_action_failed, red_action_log, repair_log, ai_bridge,
                    repair_calls, pc, args, result, repair_attempt, confirmed, obs,
                    fail_streak, unrepaired_streak, ai_response, user_input, base,
                    overlapped, message_text, classified, monitor_vars,
                    registry_vars, matcher_vars, session_vars, extract_vars>>

\* ClipboardHistory(max_entries=n) constructed where there is no history file
InitAddersRun ==
    /\ InitShell
    /\ InitNoMessage
    /\ InitMonitors /\ InitRegistry /\ InitMatcher /\ InitSession
    /\ InitNoResponse /\ InitAdders
    /\ max_entries \in 1..MaxMaxEntries
    /\ storage = <<>>
    /\ _entries = _load_history(storage, max_entries)
    /\ _last_content = "None"
    /\ clip_op = [op |-> "__init__", argument |-> <<max_entries>>, returned |-> <<>>,
                  before |-> <<>>]

NextAdders ==
    /\ \/ \E th \in AdderThreads : \E c \in ContentsOf(th) : AddEntryTest(th, c)
       \/ \E th \in AdderThreads : AddEntryLocked(th)
    /\ UNCHANGED outside_adders

SpecAdders == InitAddersRun /\ [][NextAdders]_vars

-----------------------------------------------------------------------------
(* The session state: the history of the commands of one session           *)

MaxSessionCalls == 4

SessionCommands == {"open desktop", "list files"}

CommandEntry(timestamp, command, intent_name, success, confidence) ==
    [timestamp |-> timestamp, command |-> command, intent_name |-> intent_name,
     success |-> success, confidence |-> confidence]

\* self.command_history[-count:]
get_recent_commands(count) == PySliceFrom(command_history, -count)

\* add_command(command, intent_name, success, confidence): the timestamp is
\* the time of the call
add_command(command, success) ==
    /\ calls < MaxSessionCalls
    /\ calls' = calls + 1
    /\ command_history' =
           Append(command_history,
                  CommandEntry(calls + 1, command, "None", success, 0))
    /\ session_op' = [op |-> "add_command", argument |-> <<>>,
                      returned |-> <<>>, before |-> command_history]

CallGetRecentCommands(count) ==
    /\ session_op' = [op |-> "get_recent_commands", argument |-> <<count>>,
                      returned |-> get_recent_commands(count),
                      before |-> command_history]
    /\ UNCHANGED <<command_history, calls>>

\* the counts get_recent_commands is called with
RecentCounts == 0..(MaxSessionCalls + 1)

outside_session == <<failure_counts, open_circuits, consecutive, last_call,
                     last_action_failed, red_action_log, repair_log, ai_bridge,
                     repair_calls, pc, args, result, repair_attempt, confirmed, obs,
                     fail_streak, unrepaired_streak, ai_response, user_input, base,
                     overlapped, message_text, classified, monitor_vars,
                     registry_vars, matcher_vars, clipboard_vars, extract_vars, adder_vars>>

NextSession ==
    /\ \/ \E command \in SessionCommands, success \in BOOLEAN :
              add_command(command, success)
       \/ \E count \in RecentCounts : CallGetRecentCommands(count)
    /\ UNCHANGED outside_session

SpecSession == Init /\ [][NextSession]_vars

----------------------------------------------------------------------------
(* Vocabulary of the properties *)

LevelOf(t) == get_safety_level(args[t].intent_name)

Unregistered(t) == args[t].provider_name \notin RegisteredProviders

\* the planner has returned a result to execute_with_healing
AfterPlanner == {"stage2", "classify", "repair_ai", "repair_prompt", "repair_log", "done"}

\* this step is task t entering execute_with_healing
IsCall(t) == pc[t] \in Resting /\ calls' = calls + 1 /\ pc'[t] # "idle"

LastRed == red_action_log[Len(red_action_log)]

----------------------------------------------------------------------------
(* C1: for every key the circuit is open exactly when at least max_failures  *)
(* record_failure(key) calls have been made since the last                   *)
(* record_success(key): it opens on the max_failures-th consecutive failure, *)
(* never earlier; the stored count equals that number of consecutive         *)
(* failures, so a success resets it to zero and it never decreases between   *)
(* successes.                                                                *)
C1_OpensOnNthConsecutiveFailure ==
    \A k \in Keys :
        /\ is_open(k) <=> consecutive[k] >= max_failures
        /\ get_failure_count(k) = consecutive[k]
        /\ (k \in DOMAIN failure_counts) <=> consecutive[k] > 0

\* a circuit that has just opened on its third consecutive failure, while
\* another key holds two failures and is closed
C1_Witness ==
    \E k \in Keys, j \in Keys :
        /\ k # j
        /\ is_open(k) /\ get_failure_count(k) = max_failures
        /\ last_call = <<"record_failure", k>>
        /\ ~is_open(j) /\ get_failure_count(j) = max_failures - 1

(* C3: an open circuit closes only in a step that is record_success for     *)
(* that very key; record_failure for any key and record_success for another *)
(* key leave it open.                                                        *)
C3_OpenUntilOwnSuccess ==
    [][\A k \in Keys :
          (is_open(k) /\ ~(is_open(k))') => last_call' = <<"record_success", k>>]_vars

\* a circuit still open right after a success was recorded for another key
C3_Witness ==
    \E k \in Keys :
        /\ is_open(k)
        /\ last_call[1] = "record_success"
        /\ last_call[2] # k

----------------------------------------------------------------------------
(* C2, as stated: a call of execute_with_healing on an open circuit returns *)
(* at once a failure tagged circuit_breaker=open with no repair attempt and *)
(* nothing called; and after three consecutive failed invocations for one   *)
(* key the circuit is open, so the fourth is short-circuited.               *)
ShortCircuited(t) ==
    /\ pc'[t] = "done"
    /\ ~result'[t].success
    /\ MetaGet(result'[t].metadata, "circuit_breaker") = "open"
    /\ repair_attempt'[t] = NoRepair
    /\ obs'[t] = NoObs
    /\ UNCHANGED <<breaker_vars, safety_vars, repair_log>>

C2_OpenCircuitShortCircuits ==
    [][\A t \in Tasks :
          (IsCall(t) /\ command_key(args'[t].provider_name, args'[t].intent_name)
                           \in open_circuits)
             => ShortCircuited(t)]_vars

C2_Original ==
    /\ C2_OpenCircuitShortCircuits
    /\ [](\A k \in Keys : fail_streak[k] >= max_failures => is_open(k))

(* C2, amended: the short circuit as stated; and after three consecutive    *)
(* invocations for one key that each returned a failure and none of which   *)
(* ended in an accepted repair, the circuit is open, so the fourth is       *)
(* short-circuited.                                                          *)
C2_Amended ==
    /\ C2_OpenCircuitShortCircuits
    /\ [](\A k \in Keys : unrepaired_streak[k] >= max_failures => is_open(k))

\* kill_process has failed three times in a row and the fourth call has just
\* been short-circuited
C2_Witness ==
    \E t \in Tasks :
        /\ pc[t] = "done"
        /\ args[t].intent_name = "kill_process"
        /\ MetaGet(result[t].metadata, "circuit_breaker") = "open"
        /\ obs[t] = NoObs
        /\ unrepaired_streak[KeyOf(t)] = max_failures + 1
        /\ get_failure_count(KeyOf(t)) = max_failures

(* C4: the planner asks for a confirmation exactly when the intent is RED,  *)
(* or is YELLOW (mapped so, or absent from the mapping) while               *)
(* last_action_failed is set; never for a GREEN intent; at most once.       *)
C4_ConfirmationByLevel ==
    /\ [][\A t \in Tasks :
            (pc[t] = "safety" /\ pc'[t] # "safety")
               => /\ pc'[t] \in {"confirm", "execute"}
                  /\ pc'[t] = "confirm" <=>
                        \/ LevelOf(t) = "RED"
                        \/ LevelOf(t) = "YELLOW" /\ last_action_failed]_vars
    /\ [](\A t \in Tasks :
            /\ obs[t].confirm <= 1
            /\ obs[t].confirm = 1 => pc[t] # "confirm"
            /\ LevelOf(t) = "GREEN" => obs[t].confirm = 0 /\ pc[t] # "confirm"
            /\ (LevelOf(t) = "RED" /\ obs[t].provider = 1) => obs[t].confirm = 1)

\* an intent absent from the mapping is about to be confirmed after a failure
C4_Witness ==
    \E t \in Tasks :
        /\ pc[t] = "confirm"
        /\ args[t].intent_name \notin DOMAIN INTENT_SAFETY_LEVELS
        /\ last_action_failed

(* C5: once the human has declined the confirmation the provider is never   *)
(* invoked in that invocation, and the planner's result is the cancelled    *)
(* one: success=False, cancelled=True and the safety level in the metadata. *)
C5_DeclineNeverInvokes ==
    \A t \in Tasks :
        (obs[t].confirm = 1 /\ ~confirmed[t]) =>
            /\ obs[t].provider = 0
            /\ pc[t] \in {"decide"} \cup AfterPlanner
            /\ pc[t] \in AfterPlanner =>
                  /\ ~result[t].success
                  /\ MetaGet(result[t].metadata, "cancelled") = "True"
                  /\ MetaGet(result[t].metadata, "safety_level") = LevelOf(t)
                  /\ MetaGet(result[t].metadata, "provider") = "None"

\* a YELLOW intent failed, was retried, and the retry was declined
C5_Witness ==
    \E t \in Tasks :
        /\ pc[t] = "done"
        /\ LevelOf(t) = "YELLOW"
        /\ obs[t].confirm = 1 /\ ~confirmed[t]
        /\ fail_streak[KeyOf(t)] = 2
        /\ MetaGet(result[t].metadata, "cancelled") = "True"

----------------------------------------------------------------------------
(* C6: the RED action log changes only when a confirmation of a RED intent  *)
(* is answered, and then by exactly one appended record {timestamp, intent, *)
(* provider, confirmed} carrying the human's decision; a confirmation of a  *)
(* YELLOW intent appends nothing.  The record is there before the planner   *)
(* proceeds: when the planner decides on the answer, and whenever a RED     *)
(* intent's provider has been invoked, the last record is this intent's,    *)
(* with the decision taken (confirmed=True for an invoked provider).        *)
RedRecord(t, ok) ==
    [timestamp |-> Now, intent |-> args[t].intent_name,
     provider |-> args[t].provider_name, confirmed |-> ok]

C6_RedConfirmationsLogged ==
    /\ [][\A t \in Tasks :
            IF obs'[t].confirm = obs[t].confirm + 1 /\ LevelOf(t) = "RED"
            THEN red_action_log' = Append(red_action_log, RedRecord(t, confirmed'[t]))
            ELSE pc'[t] # pc[t] => red_action_log' = red_action_log]_vars
    /\ [](\A t \in Tasks :
            /\ (LevelOf(t) = "RED" /\ pc[t] = "decide") =>
                  /\ Len(red_action_log) > 0
                  /\ LastRed = RedRecord(t, confirmed[t])
            /\ (LevelOf(t) = "RED" /\ obs[t].provider = 1) =>
                  /\ Len(red_action_log) > 0
                  /\ LastRed = RedRecord(t, TRUE))

\* a declined and then a confirmed RED action, both on record, the second
\* logged before its provider runs
C6_Witness ==
    \E t \in Tasks :
        /\ pc[t] = "execute"
        /\ LevelOf(t) = "RED"
        /\ Len(red_action_log) = 2
        /\ ~red_action_log[1].confirmed
        /\ red_action_log[2].confirmed

(* C7, as stated: no exception of a provider leaves the pipeline; every call *)
(* of execute_with_healing ends with a result.                               *)
C7_NoExceptionEscapes ==
    \A t \in Tasks : pc[t] # "raised"

(* C8, as stated: after every planner-level attempt last_action_failed is   *)
(* the negation of the attempt's success; an attempt whose provider raised  *)
(* is a failed attempt.                                                      *)
C8_ActionResultRecorded ==
    \A t \in Tasks :
        /\ (obs[t].planner = 1 /\ pc[t] \in AfterPlanner) =>
               last_action_failed = ~result[t].success
        /\ pc[t] = "raised" => last_action_failed

(* C9: when the provider is not registered the planner returns the          *)
(* not-found failure and sets last_action_failed; no safety level is        *)
(* evaluated, no confirmation requested, no provider invoked, and no step   *)
(* of the invocation touches the RED log.                                   *)
C9_ProviderNotFound ==
    /\ [](\A t \in Tasks :
            (Unregistered(t) /\ obs[t].planner = 1) =>
                /\ pc[t] \in {"planner"} \cup AfterPlanner
                /\ obs[t].safety_level = 0
                /\ obs[t].confirm = 0
                /\ obs[t].provider = 0
                /\ pc[t] \in AfterPlanner =>
                      /\ result[t] = NotFoundResult(args[t].provider_name)
                      /\ ~result[t].success
                      /\ last_action_failed)
    /\ [][\A t \in Tasks :
            (Unregistered(t) /\ pc[t] \notin Resting) =>
                red_action_log' = red_action_log]_vars

\* a RED intent on an unregistered provider has come back from the planner,
\* after an earlier RED action was logged
C9_Witness ==
    \E t \in Tasks :
        /\ pc[t] = "stage2"
        /\ Unregistered(t)
        /\ LevelOf(t) = "RED"
        /\ Len(red_action_log) = 1
        /\ last_action_failed

(* C10: on a closed circuit the planner is called once; a successful result *)
(* is followed by record_success(key) and the return of (result, no         *)
(* repair); a failed result with allow_repairs off by exactly one           *)
(* record_failure(key) and the return of (result, no repair), with no       *)
(* classification, no AI call and no fix prompt.                            *)
C10_StageTwo ==
    /\ [][\A t \in Tasks :
            (pc[t] = "stage2" /\ pc'[t] # "stage2") =>
                IF result[t].success
                THEN /\ pc'[t] = "done"
                     /\ failure_counts' =
                           [x \in (DOMAIN failure_counts) \ {KeyOf(t)} |-> failure_counts[x]]
                     /\ open_circuits' = open_circuits \ {KeyOf(t)}
                     /\ result'[t] = result[t]
                ELSE IF ~args[t].allow_repairs
                THEN /\ pc'[t] = "done"
                     /\ DOMAIN failure_counts' = DOMAIN failure_counts \cup {KeyOf(t)}
                     /\ \A x \in DOMAIN failure_counts' :
                           failure_counts'[x] =
                              IF x = KeyOf(t) THEN get_failure_count(x) + 1
                              ELSE failure_counts[x]
                     /\ result'[t] = result[t]
                ELSE pc'[t] = "classify" /\ UNCHANGED breaker_vars]_vars
    /\ [](\A t \in Tasks :
            (pc[t] = "done" /\ obs[t].planner = 1
                 /\ (result[t].success \/ ~args[t].allow_repairs)) =>
                /\ repair_attempt[t] = NoRepair
                /\ obs[t].classify = 0 /\ obs[t].ai = 0 /\ obs[t].prompt = 0
                /\ obs[t].logged = 0
                /\ obs[t].rec_succ = (IF result[t].success THEN 1 ELSE 0)
                /\ obs[t].rec_fail = (IF result[t].success THEN 0 ELSE 1)
                /\ last_call = <<(IF result[t].success THEN "record_success"
                                  ELSE "record_failure"), KeyOf(t)>>)

\* a second failure in a row with repairs off: the count went from one to two
C10_Witness ==
    \E t \in Tasks :
        /\ pc[t] = "done"
        /\ obs[t].planner = 1
        /\ ~result[t].success
        /\ ~args[t].allow_repairs
        /\ get_failure_count(KeyOf(t)) = 2
        /\ obs[t].provider = 1

----------------------------------------------------------------------------
(* The repair stage *)

\* _classify_error has run for this invocation
AfterClassify == {"repair_ai", "repair_prompt", "repair_log", "done"}

\* no repair can be tried: no class, no AI backend, or the backend is down
Unrepairable(t) ==
    \/ _classify_error(result[t].message) = "None"
    \/ ai_bridge = "none"
    \/ obs[t].available = 0

(* C11: when the planner's result is a failure and its message has no class, *)
(* or no AI backend is configured, or the backend says it is unavailable,    *)
(* the invocation records exactly one breaker failure for its key (the count *)
(* goes up by one) and returns the result with no repair: generate is not    *)
(* called, the human is not prompted and the journal gets no line.           *)
C11_UnrepairableFailureCounted ==
    /\ [](\A t \in Tasks :
            (pc[t] \in AfterClassify /\ obs[t].classify = 1 /\ Unrepairable(t))
            => /\ pc[t] = "done"
               /\ ~result[t].success
               /\ repair_attempt[t] = NoRepair
               /\ obs[t].rec_fail = 1 /\ obs[t].rec_succ = 0
               /\ last_call = <<"record_failure", KeyOf(t)>>
               /\ obs[t].ai = 0 /\ obs[t].prompt = 0 /\ obs[t].logged = 0)
    /\ [][\A t \in Tasks :
            (pc[t] = "classify" /\ pc'[t] = "done")
            => /\ get_failure_count(KeyOf(t))' = get_failure_count(KeyOf(t)) + 1
               /\ repair_log' = repair_log]_vars

\* a classified failure returned unrepaired because the backend, asked, was down
C11_Witness ==
    \E t \in Tasks :
        /\ pc[t] = "done" /\ obs[t].classify = 1
        /\ _classify_error(result[t].message) = "FileNotFoundError"
        /\ ai_bridge = "present" /\ obs[t].asked = 1 /\ obs[t].available = 0
        /\ obs[t].rec_fail = 1 /\ get_failure_count(KeyOf(t)) = 1

\* the JSON objects an answer of the AI backend may hold
JsonObjects == {<<"{", "fix", "}">>, <<"{", "reasoning", "}">>, <<"{", "}">>}

\* some stretch of the text is a well-formed JSON object
HasJsonObject(text) ==
    \E i \in 1..Len(text), j \in 1..Len(text) : SubSeq(text, i, j) \in JsonObjects

\* the AI call raised, answered nothing, or answered without any JSON object
NoSuggestion(t) ==
    \/ ai_response[t].kind = "raise"
    \/ ai_response[t].text = <<>>
    \/ ~HasJsonObject(ai_response[t].text)

LastRepair == repair_log[Len(repair_log)]

Parsed(t) ==
    /\ ai_response[t].kind = "text"
    /\ _extract_suggestion(ai_response[t].text) \notin {"None", "empty"}

\* the fix in that suggestion
ParsedFix(t) == suggested_fix_of(_extract_suggestion(ai_response[t].text))

\* the human answered the fix prompt, and with something other than y
Declined(t) == obs[t].prompt = 1 /\ user_input[t] \notin {"None", "y"}

\* the human answered the fix prompt with y
Accepted(t) == obs[t].prompt = 1 /\ user_input[t] = "y"

RepairStatuses == {"SUCCESS", "FAILED", "USER_DECLINED", "SKIPPED"}

PlannerPoints == {"planner", "safety", "confirm", "decide", "execute", "awaiting"}
HealingPoints == {"stage2", "classify", "repair_ai", "repair_prompt", "repair_log"}

(* C16: one invocation calls the planner at most once and the provider at   *)
(* most once, classifies at most once, calls generate at most once, prompts  *)
(* for a fix at most once, journals at most once and updates the breaker at  *)
(* most once.  Once the planner has returned the invocation never goes back  *)
(* into it and the result it holds is the one it returns, also after an      *)
(* accepted fix.                                                             *)
C16_AtMostOneRepair ==
    /\ [](\A t \in Tasks :
            /\ obs[t].planner <= 1 /\ obs[t].provider <= 1
            /\ obs[t].classify <= 1 /\ obs[t].asked <= 1
            /\ obs[t].ai <= 1 /\ obs[t].prompt <= 1 /\ obs[t].logged <= 1
            /\ obs[t].rec_fail + obs[t].rec_succ <= 1)
    /\ [][\A t \in Tasks :
            pc[t] \in HealingPoints
            => /\ pc'[t] \in HealingPoints \cup {"done"}
               /\ result'[t] = result[t]]_vars

\* an accepted fix: one planner call, one provider call, one generate, one
\* prompt, and the failed result returned
C16_Witness ==
    \E t \in Tasks :
        /\ pc[t] = "done" /\ Accepted(t)
        /\ repair_attempt[t].status = "SUCCESS"
        /\ obs[t].planner = 1 /\ obs[t].provider = 1
        /\ obs[t].ai = 1 /\ obs[t].prompt = 1 /\ obs[t].logged = 1
        /\ ~result[t].success

----------------------------------------------------------------------------
(* The classifier *)

\* the ways a phrase is written in the messages
Spellings(phrase) ==
    CASE phrase = "not found" -> {"not found", "NOT FOUND"}
      [] phrase = "does not exist" -> {"does not exist", "Does Not Exist"}
      [] phrase = "permission" -> {"permission", "Permission"}
      [] phrase = "access denied" -> {"access denied", "Access Denied"}
      [] phrase = "timeout" -> {"timeout", "TIMEOUT"}

\* the message holds the phrase, in whatever case
Mentions(m, phrase) == \E n \in 1..Len(m) : m[n] \in Spellings(phrase)

\* the closed set of classes: NotFound, PermissionDenied, Timeout and
\* Unclassified, under the names the code gives them
ErrorTypes == {"FileNotFoundError", "PermissionError", "TimeoutError", "None"}

(* C18: _classify_error answers for every message, with one of the four     *)
(* classes, whatever the case of the letters: NotFound (FileNotFoundError)   *)
(* when the message holds "not found" or "does not exist"; otherwise         *)
(* PermissionDenied (PermissionError) when it holds "permission" or "access  *)
(* denied"; otherwise Timeout (TimeoutError) when it holds "timeout";        *)
(* otherwise Unclassified (None).  The first class in this order wins,       *)
(* wherever the phrases stand in the message.                                *)
C18_ClassifyInOrder ==
    classified # "unset" =>
        /\ classified \in ErrorTypes
        /\ classified =
             IF Mentions(message_text, "not found")
                \/ Mentions(message_text, "does not exist")
             THEN "FileNotFoundError"
             ELSE IF Mentions(message_text, "permission")
                     \/ Mentions(message_text, "access denied")
             THEN "PermissionError"
             ELSE IF Mentions(message_text, "timeout")
             THEN "TimeoutError"
             ELSE "None"

\* a message that speaks of a timeout first and of a denied access after it,
\* in capitals: the permission class, earlier in the order, wins
C18_Witness ==
    /\ message_text = <<"TIMEOUT", "Access Denied">>
    /\ classified = "PermissionError"

----------------------------------------------------------------------------
(* What a failure result tells its caller *)

\* the invocation has returned a failure
Failed(t) == pc[t] = "done" /\ ~result[t].success

\* how the invocation came to fail, from what it did
Outcome(t) ==
    IF obs[t].planner = 0 THEN "circuit_open"
    ELSE IF Accepted(t) THEN "repair_accepted"
    ELSE IF Declined(t) THEN "repair_declined"
    ELSE IF obs[t].ai = 1 THEN "repair_failed"
    ELSE IF obs[t].confirm = 1 /\ ~confirmed[t] THEN "confirmation_declined"
    ELSE IF Unregistered(t) THEN "provider_not_found"
    ELSE "provider_failure"

\* the same, read off the returned pair: the RepairAttempt's status first,
\* then the result's metadata
Decode(metadata, status) ==
    IF status = "SUCCESS" THEN "repair_accepted"
    ELSE IF status = "USER_DECLINED" THEN "repair_declined"
    ELSE IF status = "FAILED" THEN "repair_failed"
    ELSE IF MetaGet(metadata, "provider") # "None" THEN "provider_failure"
    ELSE IF MetaGet(metadata, "circuit_breaker") = "open" THEN "circuit_open"
    ELSE IF MetaGet(metadata, "cancelled") = "True" THEN "confirmation_declined"
    ELSE "provider_not_found"

(* C17, as stated: every failure result carries a message, and two failures *)
(* that came about differently (circuit open, confirmation declined, repair  *)
(* accepted, repair declined, repair failed, plain provider failure) differ  *)
(* in their results' metadata.                                               *)
C17_Original ==
    /\ \A t \in Tasks : Failed(t) => result[t].message # <<>>
    /\ \A t, u \in Tasks :
          (Failed(t) /\ Failed(u) /\ Outcome(t) # Outcome(u))
          => result[t].metadata # result[u].metadata

(* C17, amended: a failure result the pipeline makes itself (circuit open,   *)
(* confirmation declined, provider not found) carries a message, a           *)
(* provider's failure carries whatever message the provider gave; how the    *)
(* failure came about can be read off the returned pair: the repair outcomes *)
(* from the RepairAttempt's status, the others from the result's metadata    *)
(* (the provider key, circuit_breaker=open, cancelled=True).                 *)
C17_Amended ==
    /\ \A t \in Tasks :
          Failed(t) =>
            /\ obs[t].provider = 0 => result[t].message # <<>>
            /\ Outcome(t) = Decode(result[t].metadata, repair_attempt[t].status)
    /\ \A t, u \in Tasks :
          (Failed(t) /\ Failed(u) /\ Outcome(t) # Outcome(u))
          => \/ result[t].metadata # result[u].metadata
             \/ repair_attempt[t].status # repair_attempt[u].status

\* a failure whose fix was accepted and a plain provider failure of the same
\* command: the same metadata, told apart by the RepairAttempt only
C17_Witness ==
    \E t, u \in Tasks :
        /\ Failed(t) /\ Failed(u)
        /\ Outcome(t) = "repair_accepted" /\ Outcome(u) = "provider_failure"
        /\ result[t].metadata = result[u].metadata
        /\ repair_attempt[t].status = "SUCCESS"
        /\ repair_attempt[u].status = "None"

----------------------------------------------------------------------------
(* One invocation run alone, as a function of the breaker and safety state   *)
(* s it starts from and of what the provider, the AI backend and the human   *)
(* answered task t; an answer t never asked for is left open.                *)

CountOf(s, k) == IF k \in DOMAIN s.counts THEN s.counts[k] ELSE 0

\* executor.py 80-86 on s
FailureRecorded(s, k) ==
    [s EXCEPT !.counts = [x \in (DOMAIN s.counts) \cup {k} |->
                            IF x = k THEN CountOf(s, k) + 1 ELSE s.counts[x]],
              !.open = IF CountOf(s, k) + 1 >= max_failures THEN @ \cup {k} ELSE @]

\* executor.py 88-94 on s
SuccessRecorded(s, k) ==
    [s EXCEPT !.counts = [x \in (DOMAIN s.counts) \ {k} |-> s.counts[x]],
              !.open = @ \ {k}]

ConfirmAnswers(t) == IF obs[t].confirm = 1 THEN {confirmed[t]} ELSE BOOLEAN

Answer(out) == [kind |-> out.kind, success |-> out.success, message |-> out.message]

ProviderAnswers(t) ==
    IF pc[t] = "raised"
    THEN {Answer(out) : out \in {o \in OverlapSession.outcomes : o.kind = "raise"}}
    ELSE IF obs[t].provider = 1
    THEN {[kind |-> "return", success |-> result[t].success,
           message |-> result[t].message]}
    ELSE {Answer(out) : out \in OverlapSession.outcomes}

AvailableAnswers(t) == IF obs[t].asked = 1 THEN {obs[t].available = 1} ELSE BOOLEAN

GenerateAnswers(t) == IF obs[t].ai = 1 THEN {ai_response[t]} ELSE OverlapSession.answers

\* "None": input() raised
FixAnswers(t) == IF obs[t].prompt = 1 THEN {user_input[t]} ELSE {"y", "n", "yes", "None"}

\* executor.py 168-196: which breaker call a failed result with this message ends in
BreakerCalls(t, message) ==
    IF ~args[t].allow_repairs \/ _classify_error(message) = "None" \/ ai_bridge = "none"
    THEN {"record_failure"}
    ELSE UNION {
           IF ~avail THEN {"record_failure"}
           ELSE UNION {
                  IF \/ resp.kind = "raise" \/ resp.text = <<>>
                     \/ _extract_suggestion(resp.text) \in {"None", "empty"}
                  THEN {"record_failure"}
                  ELSE {IF a = "y" THEN "record_success" ELSE "record_failure" :
                           a \in FixAnswers(t)}
                  : resp \in GenerateAnswers(t)}
           : avail \in AvailableAnswers(t)}

\* planner.py 51-109 with last_action_failed = s.failed
PlannerRuns(s, t) ==
    IF Unregistered(t)
    THEN {[kind |-> "return", success |-> FALSE,
           message |-> NotFoundResult(args[t].provider_name).message]}
    ELSE LET needs == \/ LevelOf(t) = "RED"
                      \/ LevelOf(t) = "YELLOW" /\ s.failed
         IN UNION {IF ok THEN ProviderAnswers(t)
                   ELSE {[kind |-> "return", success |-> FALSE,
                          message |-> CancelledResult(LevelOf(t)).message]}
                   : ok \in IF needs THEN ConfirmAnswers(t) ELSE {TRUE}}

\* executor.py 130-198 from s: the states it may end in
SerialRun(s, t) ==
    IF KeyOf(t) \in s.open
    THEN {s}
    ELSE UNION {
           IF r.kind = "raise" THEN {s}
           ELSE IF r.success
           THEN {SuccessRecorded([s EXCEPT !.failed = FALSE], KeyOf(t))}
           ELSE {IF c = "record_success"
                 THEN SuccessRecorded([s EXCEPT !.failed = TRUE], KeyOf(t))
                 ELSE FailureRecorded([s EXCEPT !.failed = TRUE], KeyOf(t))
                 : c \in BreakerCalls(t, r.message)}
           : r \in PlannerRuns(s, t)}

\* t's invocation run to its end, then u's
Serial(s, t, u) == UNION {SerialRun(s1, u) : s1 \in SerialRun(s, t)}

\* two invocations overlapped and both have ended
PairEnded == overlapped # "none" /\ \A t \in Tasks : pc[t] \in Resting

(* C19: when two invocations have overlapped and both have ended, the       *)
(* failure counts, the open circuits and last_action_failed are what one of  *)
(* the two serial orders of the same two invocations, given the same         *)
(* provider, AI and human answers, would have left.                          *)
C19_Serializable ==
    PairEnded =>
        SharedState \in Serial(base, overlapped, OtherTask(overlapped))
                        \cup Serial(base, OtherTask(overlapped), overlapped)

----------------------------------------------------------------------------
(* C20: provided the provider, the AI backend and the human each answer when *)
(* asked, every invocation of execute_with_healing that has started          *)
(* eventually returns a result.                                              *)
C20_EveryInvocationReturns ==
    \A t \in Tasks : (pc[t] \notin Resting) ~> (pc[t] = "done")

----------------------------------------------------------------------------
(* Background monitors *)

\* what start and stop act on: the running flags and the threads
MonitorState == <<_monitoring, _monitor_thread, workers, _active_watches, observers, caller>>

\* this step is the foreground caller making the call op
MonitorCalled(op) == calls' = calls + 1 /\ monitor_op'.op = op

\* a stop that has begun returns to its caller
StopReturns == (caller.op # "idle") ~> (caller.op = "idle")

\* a stop leaves the running state cleared
StopClears ==
    /\ (MonitorCalled("stop_monitoring") /\ _monitoring) => ~_monitoring'
    /\ (caller.op = "stop_watch" /\ caller'.op = "idle") => _active_watches' = <<>>

\* stopping a monitor that is not running changes nothing
StopIdleIsNoOp ==
    /\ (MonitorCalled("stop_monitoring") /\ ~_monitoring) => UNCHANGED MonitorState
    /\ (MonitorCalled("stop_watch") /\ _active_watches = <<>>) => UNCHANGED MonitorState

\* starting the clipboard monitor while it runs changes nothing
StartRunningMonitorIsNoOp ==
    (MonitorCalled("start_monitoring") /\ _monitoring) => UNCHANGED MonitorState

\* starting a watch whose id is already being watched changes nothing
StartRunningWatchIsNoOp ==
    (MonitorCalled("watch_downloads") /\ monitor_op'.found) => UNCHANGED MonitorState

\* C21: a stop of either monitor clears its running state and returns to
\* the caller, even when the worker never exits; starting a monitor that
\* is running and stopping one that is not change nothing.
C21_MonitorsStartAndStop ==
    /\ [][StopClears /\ StopIdleIsNoOp /\ StartRunningMonitorIsNoOp
          /\ StartRunningWatchIsNoOp]_vars
    /\ StopReturns

----------------------------------------------------------------------------
(* The trigger index *)

\* the register calls whose provider declares s
RegistrationsDeclaring(s) ==
    {r \in 1..Len(registrations) : s \in DeclaredBy(registrations[r])}

\* the trigger that declared s last: the last such trigger of the last
\* registered provider that has one
LastDeclaring(s) ==
    LET provider == registrations[Max(RegistrationsDeclaring(s))]
        j == Max({i \in 1..Len(provider.triggers) : Declares(provider.triggers[i], s)})
    IN  [provider |-> provider, trigger |-> provider.triggers[j]]

\* C22: every pattern and alias of every registered provider is a key of
\* the index, and each key has one entry, the (provider, trigger) pair that
\* declared it last.
C22_IndexLastWriteWins ==
    /\ \A i \in 1..Len(get_all_providers) :
          DeclaredBy(get_all_providers[i]) \subseteq DictKeys(_trigger_index)
    /\ \A k \in DictKeys(_trigger_index) :
          /\ Cardinality({i \in 1..Len(_trigger_index) : _trigger_index[i].key = k}) = 1
          /\ RegistrationsDeclaring(k) # {}
          /\ find_provider_for_trigger(k) = LastDeclaring(k)

\* a string declared by two registered providers, held by the later one
C22_Witness ==
    \E k \in DictKeys(_trigger_index) :
        /\ Cardinality(RegistrationsDeclaring(k)) >= 2
        /\ \E r \in RegistrationsDeclaring(k) :
              registrations[r].obj # find_provider_for_trigger(k).provider.obj

----------------------------------------------------------------------------
(* The matcher and the adapter *)

\* the keys of the index that the input equals but for case
ExactKeys(input) == {k \in DictKeys(_trigger_index) : LowerText(k) = LowerText(input)}

\* the indexed triggers that declare a string the input equals but for case
ExactTriggers(input) ==
    {get_all_triggers[i] : i \in {n \in 1..Len(get_all_triggers) :
                                    ExactMatch(input, get_all_triggers[n].trigger)}}

MatchKinds == {"IntentMatch", "AmbiguousMatch", "None"}

\* the outcome the top score calls for
KindForScore(top) ==
    IF top >= HIGH_THRESHOLD THEN "IntentMatch"
    ELSE IF top >= LOW_THRESHOLD THEN "AmbiguousMatch"
    ELSE "None"

\* the outcome the type of a backend result calls for
KindForType(rust_result) ==
    IF "type" \notin DOMAIN rust_result THEN "None"
    ELSE IF rust_result.type = "match" THEN "IntentMatch"
    ELSE IF rust_result.type = "ambiguous" THEN "AmbiguousMatch"
    ELSE "None"

WellRanked(match) ==
    /\ Len(match.suggestions) >= 1
    /\ \A n \in 1..Len(match.suggestions) :
          /\ match.suggestions[n].kind = "IntentMatch"
          /\ match.suggestions[n].confidence \in 0..100
    /\ \A n \in 1..(Len(match.suggestions) - 1) :
          match.suggestions[n].confidence > match.suggestions[n + 1].confidence

\* C25: every AmbiguousMatch, from the matcher or from the adapter, has at
\* least one suggestion, the suggestions strictly descending by confidence
\* and each confidence in [0,1].
C25_SuggestionsRanked ==
    /\ (match_call.done /\ match_call.result.kind = "AmbiguousMatch") =>
          WellRanked(match_call.result)
    /\ (adapter_call.done /\ adapter_call.result.kind = "AmbiguousMatch") =>
          WellRanked(adapter_call.result)

----------------------------------------------------------------------------
(* The clipboard history *)

\* the last call on the history was op
ClipboardDid(op) == clip_op.op = op

\* the content of the newest entry of a history, "None" for an empty one
NewestContent(entries) ==
    IF entries = <<>> THEN "None" ELSE entries[Len(entries)].content

NoAdjacentDuplicates(entries) ==
    \A i \in 1..(Len(entries) - 1) : entries[i].content # entries[i + 1].content

\* C26: add_entry returns False and changes nothing for blank content and
\* for content equal to the newest entry; otherwise (for content within the
\* size limit) it returns True and the content is the newest entry; no two
\* adjacent entries ever have equal content.
C26_AddEntryDeduplicates ==
    /\ ClipboardDid("add_entry") =>
          LET content == clip_op.argument[1].content
          IN  IF IsBlank(content) \/ content = NewestContent(clip_op.before)
              THEN clip_op.returned = <<FALSE>> /\ _entries = clip_op.before
              ELSE SizeMB(content) <= DEFAULT_MAX_SIZE_MB =>
                      /\ clip_op.returned = <<TRUE>>
                      /\ max_entries > 0 => NewestContent(_entries) = content
    /\ NoAdjacentDuplicates(_entries)

\* C27: the history never holds more than max_entries entries, and an add
\* that would exceed it drops exactly the oldest entry.
C27_NeverExceedsMaxEntries ==
    /\ Len(_entries) <= max_entries
    /\ (ClipboardDid("add_entry") /\ clip_op.returned = <<TRUE>>
        /\ Len(clip_op.before) >= max_entries /\ max_entries > 0) =>
          _entries = Tail(clip_op.before) \o <<_entries[Len(_entries)]>>

\* the same, of the histories whose max_entries is at least 1
SizeBoundedFromOne ==
    max_entries >= 1 =>
       /\ Len(_entries) <= max_entries
       /\ (ClipboardDid("add_entry") /\ clip_op.returned = <<TRUE>>
           /\ Len(clip_op.before) >= max_entries) =>
             _entries = Tail(clip_op.before) \o <<_entries[Len(_entries)]>>

\* the n newest entries, newest first
Newest(entries, n) ==
    [i \in 1..(IF n < Len(entries) THEN n ELSE Len(entries)) |->
        entries[Len(entries) + 1 - i]]

\* get_entry agrees with get_history: 1-based from the newest, None elsewhere
EntryByIndex ==
    ClipboardDid("get_entry") =>
        LET index == clip_op.argument[1]
        IN  IF 1 <= index /\ index <= Len(_entries)
            THEN clip_op.returned = <<get_history(<<>>)[index]>>
            ELSE clip_op.returned = <<>>

\* C28: get_history() is all entries newest first, get_history(limit=n) is
\* the n newest of them (all when there are fewer), and get_entry(i) is
\* get_history()[i-1] for 1 <= i <= number of entries, None otherwise.
C28_HistoryNewestFirst ==
    /\ ClipboardDid("get_history") =>
          IF clip_op.argument = <<>>
          THEN clip_op.returned = Newest(_entries, Len(_entries))
          ELSE clip_op.argument[1] >= 0 =>
                  clip_op.returned = Newest(_entries, clip_op.argument[1])
    /\ EntryByIndex

\* the same, of the limits that are None or at least 1
HistoryNewestFirstFromOne ==
    ClipboardDid("get_history") =>
        IF clip_op.argument = <<>>
        THEN clip_op.returned = Newest(_entries, Len(_entries))
        ELSE clip_op.argument[1] >= 1 =>
                clip_op.returned = Newest(_entries, clip_op.argument[1])

MostRecent(history, count) ==
    LET n == Min(count, Len(history))
    IN  SubSeq(history, Len(history) - n + 1, Len(history))

AddCommandAppendsOne ==
    session_op.op = "add_command" =>
        /\ Len(command_history) = Len(session_op.before) + 1
        /\ SubSeq(command_history, 1, Len(session_op.before)) = session_op.before

\* C30: add_command appends exactly one entry to the end of command_history,
\* and get_recent_commands(count) returns the most recent
\* min(count, len(history)) entries in chronological order, for every
\* count >= 0 and every history.
C30_RecentCommands ==
    /\ AddCommandAppendsOne
    /\ session_op.op = "get_recent_commands" =>
           session_op.returned =
               MostRecent(session_op.before, session_op.argument[1])

\* the same for the counts from 1 on
RecentCommandsFromOne ==
    (session_op.op = "get_recent_commands" /\ session_op.argument[1] >= 1) =>
        session_op.returned =
            MostRecent(session_op.before, session_op.argument[1])

\* where the first well-formed JSON object of a text starts and ends
FirstJsonObject(text) ==
    LET starts == {i \in 1..Len(text) :
                      \E j \in i..Len(text) : SubSeq(text, i, j) \in JsonObjects}
        i == CHOOSE a \in starts : \A b \in starts : a <= b
        j == CHOOSE b \in i..Len(text) : SubSeq(text, i, b) \in JsonObjects
    IN  SubSeq(text, i, j)

\* C31: for every response that holds a well-formed JSON object,
\* _extract_suggestion returns the first such object, whatever text, braces
\* or further objects come before or after it, and it returns nothing only
\* when the response holds no well-formed JSON object.
C31_FirstJsonObjectExtracted ==
    extracted # "unset" =>
        IF HasJsonObject(extract_text)
        THEN extracted = JsonLoads(FirstJsonObject(extract_text))
        ELSE extracted = "None"

\* what does hold: a text whose first "{" and last "}" enclose exactly one
\* well-formed object yields that object, and every other text yields nothing
ExtractsEnclosedObject ==
    extracted # "unset" =>
        LET start == Find(extract_text, "{")
            end == RFind(extract_text, "}")
        IN  IF start >= 1 /\ end >= start
               /\ SubSeq(extract_text, start, end) \in JsonObjects
            THEN extracted = JsonLoads(SubSeq(extract_text, start, end))
            ELSE extracted = "None"

\* C32: in every state reached by record_failure and record_success calls a
\* key is in the open set exactly when its failure count is at least
\* max_failures; a key with no stored counter is never open.
C32_OpenIffCountReached ==
    \A k \in Keys :
        /\ is_open(k) <=> get_failure_count(k) >= max_failures
        /\ k \notin DOMAIN failure_counts => ~is_open(k)

\* a key has no counter after its success and is closed, while another key,
\* failed more than max_failures times, is open
C32_Witness ==
    \E k \in Keys, j \in Keys :
        /\ last_call = <<"record_success", k>>
        /\ k \notin DOMAIN failure_counts /\ ~is_open(k)
        /\ is_open(j) /\ get_failure_count(j) > max_failures

\* the count get_failure_count(k) reads after the step
FailureCountAfter(k) ==
    IF k \in DOMAIN failure_counts' THEN failure_counts'[k] ELSE 0

OpenStays(k) ==
    k \in open_circuits =>
        /\ k \in open_circuits'
        /\ FailureCountAfter(k) = get_failure_count(k)

\* C33: through the pipeline alone an open circuit is permanent: once a
\* key's circuit is open no execute_with_healing call, for that key or any
\* other, closes it or changes its failure count.
C33_OpenIsPermanent == [][\A k \in Keys : OpenStays(k)]_vars

\* task t has returned from an invocation in which the human declined the
\* safety confirmation
DeclinedConfirmation(t) == pc[t] = "done" /\ obs[t].confirm = 1 /\ ~confirmed[t]

\* the RED confirmations on record for a key, oldest first
ConfirmationsOf(k) ==
    SelectSeq(red_action_log, LAMBDA e : command_key(e.provider, e.intent) = k)

\* the last max_failures confirmations asked for the key were all declined
LastDeclined(k) ==
    LET log == ConfirmationsOf(k)
    IN  /\ Len(log) >= max_failures
        /\ \A n \in (Len(log) - max_failures + 1)..Len(log) : ~log[n].confirmed

\* C34: a declined safety confirmation counts as a failure toward the
\* breaker: the cancelled result is unclassified, so each decline records one
\* failure for the key without the provider, the AI or the fix prompt being
\* reached; three consecutive declines of one command open its circuit, and
\* the command is then rejected without the human being asked again.
C34_DeclineCountsAsFailure ==
    /\ [](\A t \in Tasks :
            DeclinedConfirmation(t) =>
                /\ _classify_error(result[t].message) = "None"
                /\ obs[t].provider = 0 /\ obs[t].ai = 0 /\ obs[t].prompt = 0
                /\ obs[t].rec_fail = 1 /\ obs[t].rec_succ = 0)
    /\ [][\A t \in Tasks :
            (pc[t] # "done" /\ DeclinedConfirmation(t)') =>
                FailureCountAfter(KeyOf(t)) = get_failure_count(KeyOf(t)) + 1]_vars
    /\ [](\A k \in Keys :
            (LastDeclined(k) /\ \A t \in Tasks : pc[t] \in Resting) => is_open(k))
    /\ [][\A t \in Tasks :
            (/\ IsCall(t)
             /\ \A u \in Tasks : pc[u] \in Resting
             /\ LastDeclined(command_key(args'[t].provider_name, args'[t].intent_name)))
                => ShortCircuited(t)]_vars

\* three declines of kill_process in a row, no confirmation ever given, and
\* the fourth call rejected by the open circuit without a prompt
C34_Witness ==
    \E t \in Tasks :
        /\ pc[t] = "done"
        /\ Len(red_action_log) = max_failures
        /\ LastDeclined(KeyOf(t))
        /\ calls = max_failures + 1
        /\ MetaGet(result[t].metadata, "circuit_breaker") = "open"
        /\ obs[t] = NoObs

\* this step is a call of task t that the open circuit rejects
RejectedCall(t) ==
    IsCall(t) /\ MetaGet(result'[t].metadata, "circuit_breaker") = "open"

\* C35: an invocation cut short by an open circuit changes no shared state:
\* the failure counts, the open set, last_action_failed, the RED action log
\* and the repair journal are as before, so every intent requires a
\* confirmation after it exactly when it did before it.
C35_ShortCircuitChangesNothing ==
    [][\A t \in Tasks :
          RejectedCall(t) =>
              /\ failure_counts' = failure_counts
              /\ open_circuits' = open_circuits
              /\ last_action_failed' = last_action_failed
              /\ red_action_log' = red_action_log
              /\ repair_log' = repair_log
              /\ \A i \in IntentNames :
                    requires_confirmation(i, FALSE)'
                        = requires_confirmation(i, FALSE)]_vars

\* kill_process has just been rejected by its open circuit after a success
\* of another command: the last action still counts as a success, and the
\* YELLOW launch_notepad needs no confirmation
C35_Witness ==
    \E t \in Tasks :
        /\ pc[t] = "done"
        /\ MetaGet(result[t].metadata, "circuit_breaker") = "open"
        /\ args[t].intent_name = "kill_process"
        /\ ~last_action_failed
        /\ ~requires_confirmation("launch_notepad", FALSE)

\* task t holds the planner's failure for a provider that is not registered
NotFoundFailure(t) == Unregistered(t) /\ obs[t].planner = 1 /\ pc[t] \in AfterPlanner

\* C36: a provider-not-found failure is classified as a not-found error
\* (its message contains 'not found'), so with an available AI backend it
\* enters the repair path like a provider's failure: the AI is asked for a
\* fix, and an accepted suggestion records a breaker success for a key whose
\* provider does not exist.
C36_NotFoundIsRepaired ==
    \A t \in Tasks :
        NotFoundFailure(t) =>
            /\ Contains(Lower(result[t].message), "not found")
            /\ _classify_error(result[t].message) = "FileNotFoundError"
            /\ (pc[t] = "done" /\ args[t].allow_repairs /\ obs[t].available = 1)
                   => /\ obs[t].ai = 1
                      /\ repair_attempt[t].error_type = "FileNotFoundError"
                      /\ obs[t].logged = 1
            /\ (pc[t] = "done" /\ Parsed(t) /\ Accepted(t))
                   => /\ repair_attempt[t].status = "SUCCESS"
                      /\ obs[t].rec_succ = 1 /\ obs[t].rec_fail = 0
                      /\ last_call = <<"record_success", KeyOf(t)>>
                      /\ get_provider(args[t].provider_name) = "None"

\* the fix for a command of the unregistered provider has been accepted and
\* the success recorded
C36_Witness ==
    \E t \in Tasks :
        /\ pc[t] = "done"
        /\ Unregistered(t)
        /\ Parsed(t) /\ Accepted(t)
        /\ repair_attempt[t].status = "SUCCESS"
        /\ obs[t].provider = 0
        /\ last_call = <<"record_success", KeyOf(t)>>

\* the provider registered under a name just now
CurrentProvider(name) == _providers[DictIndex(_providers, name)].value

\* an indexed pair belongs to the registry as it is now
IsCurrent(pair) ==
    /\ DictIndex(_providers, pair.provider.name) # 0
    /\ CurrentProvider(pair.provider.name) = pair.provider
    /\ \E n \in 1..Len(pair.provider.triggers) : pair.provider.triggers[n] = pair.trigger

\* C37: after any sequence of register calls every (provider, trigger) pair
\* of the trigger index refers to a provider registered now and to one of its
\* triggers; registering a name again leaves no entry of the replaced
\* provider behind.
C37_IndexHoldsCurrentProviders ==
    \A n \in 1..Len(get_all_triggers) : IsCurrent(get_all_triggers[n])

\* what does hold: every indexed pair is a provider that has been handed to
\* register, with one of its own triggers
IndexHoldsRegistered ==
    \A n \in 1..Len(get_all_triggers) :
        LET pair == get_all_triggers[n]
        IN  /\ \E r \in 1..Len(registrations) : registrations[r] = pair.provider
            /\ \E i \in 1..Len(pair.provider.triggers) :
                   pair.provider.triggers[i] = pair.trigger

\* the monitor threads that have not left _monitor_loop
ActiveLoops == {w \in 1..Len(workers) : workers[w] # "exited"}

\* C38: for one ClipboardHistory at most one monitor loop is active at any
\* time, under every interleaving of start_monitoring and stop_monitoring
\* with the monitor thread's own steps.
C38_OneMonitorLoop == Cardinality(ActiveLoops) <= 1

\* what does hold: while the flag is down no new loop starts, and a loop
\* that tests the flag while it is down exits
LoopsStartOnlyWhenStopped ==
    [][Len(workers') > Len(workers) => (~_monitoring /\ _monitoring')]_vars

\* the entries held are the newest of the entries accepted, none lost
\* except by eviction
HoldsNewestAccepted ==
    _entries = PySliceFrom(accepted, -Min(Len(accepted), max_entries))

\* C39: with the monitor thread and a foreground caller calling add_entry
\* concurrently, in every interleaving the history never holds two adjacent
\* entries of equal content, never exceeds max_entries, and loses no
\* accepted entry.
C39_ConcurrentAddsKeepHistory ==
    /\ NoAdjacentDuplicates(_entries)
    /\ Len(_entries) <= max_entries
    /\ accepted # <<>> => HoldsNewestAccepted

\* what does hold under every interleaving: the size bound, and no accepted
\* entry lost
ConcurrentAddsBoundedAndKept ==
    /\ Len(_entries) <= max_entries
    /\ accepted # <<>> => HoldsNewestAccepted

\* the observers _active_watches holds
Recorded == {_active_watches[n].observer : n \in 1..Len(_active_watches)}

\* the observers that were started and never told to stop
Running == {o \in 1..Len(observers) : observers[o] = "running"}

\* the last call made was a stop-watch, and it has returned
StopWatchReturned == monitor_op.op = "stop_watch" /\ caller.op = "idle"

\* C40: every filesystem observer started by the WatchProvider is recorded
\* in _active_watches or has been stopped; after any sequence of watch and
\* stop-watch intents, a stop-watch leaves no observer running and
\* _active_watches empty.
C40_ObserversRecordedOrStopped ==
    /\ Running \subseteq Recorded
    /\ StopWatchReturned => (Running = {} /\ _active_watches = <<>>)

\* what does hold: a stop-watch that found watches leaves _active_watches empty
StopWatchEmptiesWatches ==
    (StopWatchReturned /\ monitor_op.found) => _active_watches = <<>>

====
